---- MODULE Spec2Model ----
(***************************************************************************)
(* Model of aicmt's split-commit machinery:                                *)
(*   - src/src/openrouter.ts : stripCodeFences, parseCommitGroups,         *)
(*     generateCommitGroups (the grouping client and its repair);          *)
(*   - src/src/git.ts        : parseDiffHunks, buildPatchFromHunks and the *)
(*     git operations the commands call;                                   *)
(*   - src/src/commands/commit.ts : runSplitHunksCommit.                   *)
(*                                                                         *)
(* A text is the sequence of its lines (text.split('\n'), and back with    *)
(* join('\n')). A model reply is a sequence of tokens. A JSON value is a   *)
(* record tagged by t.                                                     *)
(***************************************************************************)
EXTENDS Integers, Sequences, FiniteSets, TLC

VARIABLES
    gcPc,        \* generateCommitGroups: "idle", "awaiting", "returned", "thrown"
    gcFiles,     \* its `files` argument
    gcResponse,  \* the HTTP response fetch resolved with
    gcParsed,    \* `groups` as parseCommitGroups returned it (before the repair)
    gcGroups,    \* `groups` as returned to the caller
    gcError,     \* the message of the Error thrown
    \* the repository
    history,       \* the commits HEAD reaches, oldest first; HEAD is the last one
    index,         \* the hunks staged on top of HEAD, in the order they were staged
    \* runCommit, runSplitHunksCommit
    pc,            \* the await the command is suspended at, or "done" / "failed"
    scenario,      \* the working tree and the status runCommit read
    dryRun, yes,   \* its options
    split, splitHunks,
    confirmed,     \* the user answered the confirm prompt with yes
    gitCalls,      \* the git calls that change the repository, as they settled
    hunks,         \* parseDiffHunks(diff)
    groups,        \* what generateCommitGroupsFromHunks resolved with
    groupPos,      \* position of the for loop in groups
    originalHead,  \* HEAD as saved before the loop
    createdCount,
    error,         \* the error the catch block holds
    thrown,        \* the error the command rejected with
    console,       \* what the command printed, oldest first
    resetCalls,    \* the arguments and outcomes of the resetToCommit calls
    \* parseDiffHunks and buildPatchFromHunks, called on their own
    pdPc,          \* "idle", "parse", "build", "built"
    pdDiff,        \* the diff text, as its lines
    pdHunks,       \* parseDiffHunks(pdDiff)
    pbUnits,       \* the argument of buildPatchFromHunks
    pbPatch,       \* buildPatchFromHunks(pbUnits), as its lines
    \* runSplitCommit
    splitGroups,   \* what generateCommitGroups resolved with
    splitPos,      \* position of the for loop in splitGroups
    splitCreated,  \* its createdCount
    \* runCommit, single commit
    status,        \* `status`, read again after stageAll
    messages,      \* what generateCommitMessages resolved with
    finalMessage,
    \* generateCommitMessages, called on its own
    gmPc,          \* "idle", "awaiting", "returned", "thrown"
    gmResponse,    \* the HTTP response fetch resolved with
    gmExtracted,   \* what parseJsonArray or parseLines extracted
    gmMessages,    \* the messages returned
    gmError,       \* the message of the Error thrown
    \* resolveProjectConfig, called on its own
    cfgPc,         \* "idle", "ready", "returned", "thrown"
    globalConfig,  \* its arguments
    repoRoot,
    cfgResolved,   \* the ResolvedConfig returned
    cfgMissing     \* the names the Error thrown lists

gcVars == <<gcPc, gcFiles, gcResponse, gcParsed, gcGroups, gcError>>
repoVars == <<history, index>>
optVars == <<scenario, dryRun, yes, split, splitHunks>>
cmdVars == <<pc, optVars, confirmed, gitCalls, hunks, groups, groupPos, originalHead,
             createdCount, error, thrown, console, resetCalls>>
patchVars == <<pdPc, pdDiff, pdHunks, pbUnits, pbPatch>>
fileVars == <<splitGroups, splitPos, splitCreated>>
singleVars == <<status, messages, finalMessage>>
gmVars == <<gmPc, gmResponse, gmExtracted, gmMessages, gmError>>
cfgVars == <<cfgPc, globalConfig, repoRoot, cfgResolved, cfgMissing>>

(***************************************************************************)
(* Bounds                                                                  *)
(***************************************************************************)
MaxItems == 2     \* elements of the JSON array the model replies with (file groups)
MaxGroups == 3    \* elements of the JSON array the model replies with (hunk groups)
MaxUnits == 3     \* hunks handed to buildPatchFromHunks in one call
MaxMessages == 4  \* elements of the JSON array the model replies with (messages)

(***************************************************************************)
(* Generic helpers                                                         *)
(***************************************************************************)
Range(s) == {s[i] : i \in 1..Len(s)}

SeqsUpTo(S, n) == UNION {[1..k -> S] : k \in 0..n}

\* String.prototype.startsWith
startsWith(s, p) == Len(s) >= Len(p) /\ SubSeq(s, 1, Len(p)) = p

RECURSIVE trimStart(_)
trimStart(s) ==
    IF Len(s) > 0 /\ SubSeq(s, 1, 1) = " " THEN trimStart(SubSeq(s, 2, Len(s))) ELSE s

RECURSIVE trimEnd(_)
trimEnd(s) ==
    IF Len(s) > 0 /\ SubSeq(s, Len(s), Len(s)) = " "
    THEN trimEnd(SubSeq(s, 1, Len(s) - 1)) ELSE s

\* String.prototype.trim on a string whose only white space is " "
trim(s) == trimEnd(trimStart(s))

(***************************************************************************)
(* JSON values                                                             *)
(***************************************************************************)
JStr(s)     == [t |-> "str", s |-> s]
JNum        == [t |-> "num"]
JNull       == [t |-> "null"]
JUndef      == [t |-> "undef"]
JArr(items) == [t |-> "arr", items |-> items]
JObj(f, m)  == [t |-> "obj", files |-> f, message |-> m]

(***************************************************************************)
(* Reply text, as tokens                                                   *)
(***************************************************************************)
TWs     == [k |-> "ws"]       \* blanks
TNl     == [k |-> "nl"]       \* a line break
TFence  == [k |-> "fence"]    \* ```
TWord   == [k |-> "word"]     \* letters right after a fence, e.g. json
TJunk   == [k |-> "junk"]     \* prose that is no JSON
TDoc(v) == [k |-> "json", v |-> v]

IsSpace(tok) == tok.k \in {"ws", "nl"}

RECURSIVE trimTokensStart(_)
trimTokensStart(text) ==
    IF Len(text) > 0 /\ IsSpace(Head(text)) THEN trimTokensStart(Tail(text)) ELSE text

RECURSIVE trimTokensEnd(_)
trimTokensEnd(text) ==
    IF Len(text) > 0 /\ IsSpace(text[Len(text)])
    THEN trimTokensEnd(SubSeq(text, 1, Len(text) - 1)) ELSE text

trimTokens(text) == trimTokensEnd(trimTokensStart(text))

\* text.replace(/^```[a-zA-Z]*\n?/, '')
dropOpeningFence(text) ==
    LET a == IF Len(text) > 0 /\ Head(text) = TFence THEN Tail(text) ELSE text
        b == IF a # text /\ Len(a) > 0 /\ Head(a) = TWord THEN Tail(a) ELSE a
        c == IF a # text /\ Len(b) > 0 /\ Head(b) = TNl THEN Tail(b) ELSE b
    IN  c

\* text.replace(/```$/, '')
dropClosingFence(text) ==
    IF Len(text) > 0 /\ text[Len(text)] = TFence
    THEN SubSeq(text, 1, Len(text) - 1) ELSE text

stripCodeFences(text) ==
    LET trimmed == trimTokens(text)
    IN  IF ~(Len(trimmed) > 0 /\ Head(trimmed) = TFence)
        THEN trimmed
        ELSE trimTokens(dropClosingFence(dropOpeningFence(trimmed)))

\* JSON.parse: one JSON document, white space around it allowed; else it throws
JSONparse(text) ==
    LET body == trimTokens(text)
    IN  IF Len(body) = 1 /\ body[1].k = "json"
        THEN [threw |-> FALSE, value |-> body[1].v]
        ELSE [threw |-> TRUE, value |-> JUndef]

(***************************************************************************)
(* parseCommitGroups                                                       *)
(***************************************************************************)
Null == [isNull |-> TRUE, groups |-> <<>>]
Some(gs) == [isNull |-> FALSE, groups |-> gs]

\* the condition of the `if` in the loop over the parsed array
isUsableItem(item) ==
    /\ item.t = "obj"
    /\ item.files.t = "arr"
    /\ item.message.t = "str"
    /\ Len(item.files.items) > 0
    /\ Len(trim(item.message.s)) > 0

isStringEntry(f) == f.t = "str"

\* the group pushed for a usable item
toCommitGroup(item) ==
    LET strings == SelectSeq(item.files.items, isStringEntry)
    IN  [files   |-> [i \in 1..Len(strings) |-> strings[i].s],
         message |-> trim(item.message.s)]

parseCommitGroups(text) ==
    LET parsed == JSONparse(stripCodeFences(text))
    IN  IF parsed.threw THEN Null
        ELSE IF parsed.value.t # "arr" THEN Null
        ELSE LET usable == SelectSeq(parsed.value.items, isUsableItem)
                 gs == [i \in 1..Len(usable) |-> toCommitGroup(usable[i])]
             IN  IF Len(gs) > 0 THEN Some(gs) ELSE Null

(***************************************************************************)
(* generateCommitGroups                                                    *)
(***************************************************************************)
groupedFiles(gs) == UNION {Range(gs[i].files) : i \in 1..Len(gs)}

missingFiles(files, gs) ==
    LET isMissing(f) == f \notin groupedFiles(gs)
    IN  SelectSeq(files, isMissing)

\* mutant: only the first missing file is pushed
addMissingFilesFirstOnly(gs, files) ==
    LET missing == missingFiles(files, gs)
    IN  IF Len(missing) > 0
        THEN [gs EXCEPT ![Len(gs)].files = Append(@, missing[1])]
        ELSE gs

\* mutant: the missing files go to groups[0]
addMissingFilesToFirstGroup(gs, files) ==
    LET missing == missingFiles(files, gs)
    IN  IF Len(missing) > 0
        THEN [gs EXCEPT ![1].files = @ \o missing]
        ELSE gs

\* groups[groups.length - 1].files.push(...missingFiles), when something is missing
addMissingFiles(gs, files) ==
    LET missing == missingFiles(files, gs)
    IN  IF Len(missing) > 0
        THEN [gs EXCEPT ![Len(gs)].files = @ \o missing]
        ELSE gs

\* mutant: the parse result is not checked
parseFailedNever(parsed) == FALSE

\* `!groups || groups.length === 0`
parseFailed(parsed) == parsed.isNull \/ Len(parsed.groups) = 0

FailedToParse == "Failed to parse commit groups from AI response"

Returned(parsed, gs) ==
    [threw |-> FALSE, error |-> "", parsed |-> parsed, groups |-> gs]
Thrown(e) ==
    [threw |-> TRUE, error |-> e, parsed |-> <<>>, groups |-> <<>>]

\* everything generateCommitGroups does once fetch has resolved
generateCommitGroups(files, response) ==
    IF ~response.ok THEN Thrown("OpenRouter e")
    ELSE IF ~response.validJson THEN Thrown("OpenRouter returned invalid JSON")
    ELSE IF Len(response.content) = 0 THEN Thrown("OpenRouter returned empty content")
    ELSE LET parsed == parseCommitGroups(response.content)
         IN  IF parseFailed(parsed)
             THEN Thrown(FailedToParse)
             ELSE Returned(parsed.groups, addMissingFiles(parsed.groups, files))

(***************************************************************************)
(* git.ts: parseDiffHunks                                                  *)
(***************************************************************************)
MaxSummaryLines == 5         \* extractHunkSummary: maxLines = 5
MaxSummaryLineLength == 100  \* extractHunkSummary: line.slice(0, 100)

\* Array.prototype.join('\n'), the result as a text (its lines)
join(lines) == IF lines = <<>> THEN <<"">> ELSE lines

\* the start of the last " b/" of line that leaves (.+) on both sides, or 0
RECURSIVE lastSeparator(_, _, _)
lastSeparator(line, from, i) ==
    IF i < from THEN 0
    ELSE IF SubSeq(line, i, i + 2) = " b/" THEN i
    ELSE lastSeparator(line, from, i - 1)

\* line.match(/^diff --git a\/(.+) b\/(.+)$/): match[2], or ''
extractFileFromDiffHeader(line) ==
    LET prefix == "diff --git a/"
        sep == lastSeparator(line, Len(prefix) + 2, Len(line) - 3)
    IN  IF startsWith(line, prefix) /\ sep > 0
        THEN SubSeq(line, sep + 3, Len(line))
        ELSE ""

isChangeLine(line) ==
    /\ startsWith(line, "+") \/ startsWith(line, "-")
    /\ ~startsWith(line, "+++") /\ ~startsWith(line, "---")

extractHunkSummary(lines) ==
    LET changes == SelectSeq(lines, isChangeLine)
        kept == SubSeq(changes, 1, IF Len(changes) < MaxSummaryLines
                                   THEN Len(changes) ELSE MaxSummaryLines)
        cut(line) == SubSeq(line, 1, IF Len(line) < MaxSummaryLineLength
                                     THEN Len(line) ELSE MaxSummaryLineLength)
    IN  join([i \in 1..Len(kept) |-> cut(kept[i])])

\* the local variables of parseDiffHunks
parserStart ==
    [hunks |-> <<>>, currentFile |-> "", currentFileHeader |-> <<>>,
     currentHunkIndex |-> 0, currentHunkLines |-> <<>>, currentHunkHeader |-> "",
     inHunk |-> FALSE]

flushHunk(st) ==
    [st EXCEPT
        !.hunks = IF Len(st.currentHunkLines) > 0 /\ st.currentFile # ""
                  THEN Append(@, [id         |-> st.currentFile \o ":" \o
                                                 ToString(st.currentHunkIndex),
                                  file       |-> st.currentFile,
                                  hunkIndex  |-> st.currentHunkIndex,
                                  header     |-> st.currentHunkHeader,
                                  content    |-> st.currentHunkLines,
                                  fileHeader |-> st.currentFileHeader,
                                  summary    |-> extractHunkSummary(st.currentHunkLines)])
                  ELSE @,
        !.currentHunkLines = <<>>,
        !.currentHunkHeader = ""]

isFileHeaderLine(line) ==
    \/ startsWith(line, "index ") \/ startsWith(line, "--- ") \/ startsWith(line, "+++ ")
    \/ startsWith(line, "new file mode") \/ startsWith(line, "deleted file mode")
    \/ startsWith(line, "old mode") \/ startsWith(line, "new mode")

\* mutant: the hunk counter is not reset at a new file
parseLineNoRestart(st, line) ==
    IF startsWith(line, "diff --git ")
    THEN [flushHunk(st) EXCEPT !.currentFile = extractFileFromDiffHeader(line),
                               !.currentFileHeader = <<line>>,
                               !.inHunk = FALSE]
    ELSE IF ~st.inHunk /\ isFileHeaderLine(line)
    THEN [st EXCEPT !.currentFileHeader = Append(@, line)]
    ELSE IF startsWith(line, "@@")
    THEN [flushHunk(st) EXCEPT !.currentHunkHeader = line,
                               !.currentHunkLines = <<line>>,
                               !.currentHunkIndex = @ + 1,
                               !.inHunk = TRUE]
    ELSE IF st.inHunk
    THEN [st EXCEPT !.currentHunkLines = Append(@, line)]
    ELSE st

\* parseLine as it would be if file header lines were recognised inside a
\* hunk too
parseLineHeaderAnywhere(st, line) ==
    IF startsWith(line, "diff --git ")
    THEN [flushHunk(st) EXCEPT !.currentFile = extractFileFromDiffHeader(line),
                               !.currentFileHeader = <<line>>,
                               !.currentHunkIndex = 0,
                               !.inHunk = FALSE]
    ELSE IF isFileHeaderLine(line)
    THEN [st EXCEPT !.currentFileHeader = Append(@, line)]
    ELSE IF startsWith(line, "@@")
    THEN [flushHunk(st) EXCEPT !.currentHunkHeader = line,
                               !.currentHunkLines = <<line>>,
                               !.currentHunkIndex = @ + 1,
                               !.inHunk = TRUE]
    ELSE IF st.inHunk
    THEN [st EXCEPT !.currentHunkLines = Append(@, line)]
    ELSE st

\* one turn of the loop over the lines
parseLine(st, line) ==
    IF startsWith(line, "diff --git ")
    THEN [flushHunk(st) EXCEPT !.currentFile = extractFileFromDiffHeader(line),
                               !.currentFileHeader = <<line>>,
                               !.currentHunkIndex = 0,
                               !.inHunk = FALSE]
    ELSE IF ~st.inHunk /\ isFileHeaderLine(line)
    THEN [st EXCEPT !.currentFileHeader = Append(@, line)]
    ELSE IF startsWith(line, "@@")
    THEN [flushHunk(st) EXCEPT !.currentHunkHeader = line,
                               !.currentHunkLines = <<line>>,
                               !.currentHunkIndex = @ + 1,
                               !.inHunk = TRUE]
    ELSE IF st.inHunk
    THEN [st EXCEPT !.currentHunkLines = Append(@, line)]
    ELSE st

RECURSIVE parseLines(_, _, _)
parseLines(st, lines, i) ==
    IF i > Len(lines) THEN st ELSE parseLines(parseLine(st, lines[i]), lines, i + 1)

\* diff is the text as its lines: diff.split('\n')
parseDiffHunks(diff) == flushHunk(parseLines(parserStart, diff, 1)).hunks

(***************************************************************************)
(* git.ts: buildPatchFromHunks                                             *)
(***************************************************************************)
\* mutant: a file is moved to the end each time it is met again
RECURSIVE filesByLastAppearance(_, _)
filesByLastAppearance(hs, seen) ==
    IF hs = <<>> THEN <<>>
    ELSE LET h == hs[Len(hs)]
             rest == SubSeq(hs, 1, Len(hs) - 1)
         IN  IF h.file \in seen THEN filesByLastAppearance(rest, seen)
             ELSE filesByLastAppearance(rest, seen \cup {h.file}) \o <<h.file>>

\* the keys of byFile, in insertion order
RECURSIVE filesInOrder(_, _)
filesInOrder(hs, seen) ==
    IF hs = <<>> THEN <<>>
    ELSE IF Head(hs).file \in seen THEN filesInOrder(Tail(hs), seen)
    ELSE <<Head(hs).file>> \o filesInOrder(Tail(hs), seen \cup {Head(hs).file})

\* insert h after the last element whose hunkIndex is not larger (a stable sort)
RECURSIVE insertByIndex(_, _)
insertByIndex(sorted, h) ==
    IF sorted = <<>> THEN <<h>>
    ELSE IF sorted[Len(sorted)].hunkIndex <= h.hunkIndex THEN Append(sorted, h)
    ELSE Append(insertByIndex(SubSeq(sorted, 1, Len(sorted) - 1), h), sorted[Len(sorted)])

\* mutant: the hunks of a file keep their input order
sortByIndexKeepInput(hs) == hs

\* mutant: the comparator is (a, b) => b.hunkIndex - a.hunkIndex
RECURSIVE sortByIndexDescending(_)
sortByIndexDescending(hs) ==
    IF hs = <<>> THEN <<>>
    ELSE LET rest == sortByIndexDescending(SubSeq(hs, 1, Len(hs) - 1))
             h == hs[Len(hs)]
             larger(x) == x.hunkIndex >= h.hunkIndex
             smaller(x) == x.hunkIndex < h.hunkIndex
         IN  SelectSeq(rest, larger) \o <<h>> \o SelectSeq(rest, smaller)

\* fileHunks.sort((a, b) => a.hunkIndex - b.hunkIndex)
RECURSIVE sortByIndex(_)
sortByIndex(hs) ==
    IF hs = <<>> THEN <<>>
    ELSE insertByIndex(sortByIndex(SubSeq(hs, 1, Len(hs) - 1)), hs[Len(hs)])

RECURSIVE concat(_)
concat(parts) == IF parts = <<>> THEN <<>> ELSE Head(parts) \o concat(Tail(parts))

\* the patchParts pushed for one file: its header, then its hunks
fileParts(hs, file) ==
    LET ofFile(h) == h.file = file
        fileHunks == sortByIndex(SelectSeq(hs, ofFile))
    IN  <<join(fileHunks[1].fileHeader)>>
        \o [i \in 1..Len(fileHunks) |-> join(fileHunks[i].content)]

\* the patch text, as its lines
\* buildPatchFromHunks as it would be without `if (hunks.length === 0)`
buildPatchFromHunksNoEarlyReturn(hs) ==
    LET files == filesInOrder(hs, {})
        patchParts == concat([f \in 1..Len(files) |-> fileParts(hs, files[f])])
    IN  IF Len(hs) = 0 THEN <<"", "">> ELSE Append(concat(patchParts), "")

buildPatchFromHunks(hs) ==
    IF Len(hs) = 0 THEN <<"">>
    ELSE LET files == filesInOrder(hs, {})
             patchParts == concat([f \in 1..Len(files) |-> fileParts(hs, files[f])])
         IN  Append(concat(patchParts), "")

(***************************************************************************)
(* Inputs of the grouping client                                           *)
(***************************************************************************)
\* `files`: [...new Set([...status.staged, ...status.unstaged])], so pairwise distinct
FileInputs ==
    { <<"a.ts">>, <<"b.ts", "a.ts">>, <<"a.ts", "b.ts", "c.ts">>, <<"c.ts", "a.ts", "b.ts">> }

\* the `files` arrays a reply may carry: empty, repeated and non-string entries
ReplyFileLists ==
    { <<>>, <<JStr("a.ts")>>, <<JStr("b.ts")>>, <<JStr("a.ts"), JStr("b.ts")>>,
      <<JStr("a.ts"), JStr("a.ts")>>, <<JNum>>, <<JNum, JStr("c.ts")>> }

ReplyItems ==
    {JObj(JArr(l), JStr("fix x")) : l \in ReplyFileLists}
    \cup {JObj(JArr(<<JStr("b.ts")>>), JStr(" feat y "))}
    \cup {JObj(JArr(<<JStr("a.ts")>>), m) : m \in {JStr(""), JStr("  "), JNum}}
    \cup {JObj(JUndef, JStr("fix x")), JNull}

ReplyDocs ==
    {JArr(items) : items \in SeqsUpTo(ReplyItems, MaxItems)}
    \cup {JNull, JObj(JArr(<<JStr("a.ts")>>), JStr("fix x"))}

\* the decorations a model puts around its JSON
Wrappings(doc) ==
    { <<TDoc(doc)>>,
      <<TNl, TDoc(doc), TWs>>,
      <<TFence, TWord, TNl, TDoc(doc), TNl, TFence>>,
      <<TWs, TFence, TNl, TDoc(doc), TFence, TNl>>,
      <<TJunk, TNl, TDoc(doc)>>,
      <<TFence, TWord, TNl, TDoc(doc), TNl, TFence, TNl, TJunk>> }

ReplyContents ==
    UNION {Wrappings(doc) : doc \in ReplyDocs} \cup {<<>>, <<TJunk>>}

Responses ==
    {[ok |-> TRUE, validJson |-> TRUE, content |-> c] : c \in ReplyContents}
    \cup {[ok |-> FALSE, validJson |-> TRUE, content |-> <<>>],
          [ok |-> TRUE, validJson |-> FALSE, content |-> <<>>]}

NoResponse == [ok |-> FALSE, validJson |-> FALSE, content |-> <<>>]

(***************************************************************************)
(* The grouping client as a state machine                                  *)
(***************************************************************************)
gcInit ==
    /\ gcPc = "idle"
    /\ gcFiles = <<>>
    /\ gcResponse = NoResponse
    /\ gcParsed = <<>>
    /\ gcGroups = <<>>
    /\ gcError = ""

\* generateCommitGroups up to `await fetch(...)`
gcCall ==
    /\ gcPc = "idle"
    /\ \E files \in FileInputs : gcFiles' = files
    /\ gcPc' = "awaiting"
    /\ UNCHANGED <<gcResponse, gcParsed, gcGroups, gcError, repoVars, cmdVars, patchVars, cfgVars, gmVars, fileVars, singleVars>>

\* fetch resolved: the rest of generateCommitGroups
gcResolve ==
    /\ gcPc = "awaiting"
    /\ \E response \in Responses :
          LET out == generateCommitGroups(gcFiles, response)
          IN  /\ gcResponse' = response
              /\ gcPc' = IF out.threw THEN "thrown" ELSE "returned"
              /\ gcParsed' = out.parsed
              /\ gcGroups' = out.groups
              /\ gcError' = out.error
    /\ UNCHANGED <<gcFiles, repoVars, cmdVars, patchVars, cfgVars, gmVars, fileVars, singleVars>>

(***************************************************************************)
(* generateCommitGroupsFromHunks: the grouping client for hunks            *)
(***************************************************************************)
JHunkObj(ids, m) == [t |-> "obj", hunkIds |-> ids, message |-> m]

\* an element carries a non-empty list of unit identifiers and a non-empty message
isUsableHunkItem(item) ==
    /\ item.t = "obj"
    /\ item.hunkIds.t = "arr"
    /\ item.message.t = "str"
    /\ Len(SelectSeq(item.hunkIds.items, isStringEntry)) > 0
    /\ Len(trim(item.message.s)) > 0

toHunkCommitGroup(item) ==
    LET strings == SelectSeq(item.hunkIds.items, isStringEntry)
    IN  [hunkIds |-> [i \in 1..Len(strings) |-> strings[i].s],
         message |-> trim(item.message.s)]

parseHunkCommitGroups(text) ==
    LET parsed == JSONparse(stripCodeFences(text))
    IN  IF parsed.threw THEN Null
        ELSE IF parsed.value.t # "arr" THEN Null
        ELSE LET usable == SelectSeq(parsed.value.items, isUsableHunkItem)
                 parsedGroups == [i \in 1..Len(usable) |-> toHunkCommitGroup(usable[i])]
             IN  IF Len(parsedGroups) > 0 THEN Some(parsedGroups) ELSE Null

\* the elements of ids that are not in seen, each once, in order of first occurrence
\* (the iteration order of a Set)
RECURSIVE uniqueInOrder(_, _)
uniqueInOrder(ids, seen) ==
    IF ids = <<>> THEN <<>>
    ELSE IF Head(ids) \in seen THEN uniqueInOrder(Tail(ids), seen)
    ELSE <<Head(ids)>> \o uniqueInOrder(Tail(ids), seen \cup {Head(ids)})

\* a duplicate assignment: the first assignment wins
RECURSIVE dropDuplicateAssignments(_, _)
dropDuplicateAssignments(gs, seen) ==
    IF gs = <<>> THEN <<>>
    ELSE LET kept == uniqueInOrder(Head(gs).hunkIds, seen)
         IN  <<[Head(gs) EXCEPT !.hunkIds = kept]>>
             \o dropDuplicateAssignments(Tail(gs), seen \cup Range(kept))

\* the identifiers no group holds are appended to the last group
addMissingHunkIds(gs, ids) ==
    LET held == UNION {Range(gs[g].hunkIds) : g \in 1..Len(gs)}
        absent(id) == id \notin held
        missing == uniqueInOrder(SelectSeq(ids, absent), {})
    IN  IF Len(missing) > 0
        THEN [gs EXCEPT ![Len(gs)].hunkIds = @ \o missing]
        ELSE gs

\* everything generateCommitGroupsFromHunks does once the reply is there
generateCommitGroupsFromHunks(catalog, response) ==
    IF ~response.ok THEN Thrown("OpenRouter error")
    ELSE IF ~response.validJson THEN Thrown("OpenRouter returned invalid JSON")
    ELSE IF Len(response.content) = 0 THEN Thrown("OpenRouter returned empty content")
    ELSE LET parsed == parseHunkCommitGroups(response.content)
         IN  IF parsed.isNull
             THEN Thrown(FailedToParse)
             ELSE Returned(parsed.groups,
                           addMissingHunkIds(dropDuplicateAssignments(parsed.groups, {}),
                                             catalog))

(***************************************************************************)
(* generateCommitMessages                                                  *)
(***************************************************************************)
\* the text of a JSON value, on one line
renderEntry(v) ==
    IF v.t = "str" THEN "\"" \o v.s \o "\""
    ELSE IF v.t = "num" THEN "1"
    ELSE "null"

RECURSIVE renderEntries(_)
renderEntries(items) ==
    IF items = <<>> THEN ""
    ELSE IF Len(items) = 1 THEN renderEntry(items[1])
    ELSE renderEntry(Head(items)) \o "," \o renderEntries(Tail(items))

render(doc) ==
    IF doc.t = "arr" THEN "[" \o renderEntries(doc.items) \o "]" ELSE renderEntry(doc)

\* the content of a reply: the text as tokens (for JSON.parse) and as its
\* lines (for split('\n'))
PlainReply(doc) == [tokens |-> <<TDoc(doc)>>, lines |-> <<render(doc)>>]
\* the text of the token TFence, a tilde standing for each backquote
FenceText == "~~~"
FencedReply(doc) ==
    [tokens |-> <<TFence, TWord, TNl, TDoc(doc), TNl, TFence>>,
     lines  |-> <<FenceText \o "json", render(doc), FenceText>>]
ProseReply(lines) == [tokens |-> <<TJunk>>, lines |-> lines]
EmptyContent == [tokens |-> <<>>, lines |-> <<"">>]

isNonEmptyString(str) == str # ""

\* the map callback of parseJsonArray: a string entry trimmed, else the empty string
trimmedOrEmpty(entry) == IF entry.t = "str" THEN trim(entry.s) ELSE ""

\* null, or the non-empty strings of the array
parseJsonArray(content) ==
    LET parsed == JSONparse(stripCodeFences(content.tokens))
    IN  IF parsed.threw \/ parsed.value.t # "arr"
        THEN [isNull |-> TRUE, strings |-> <<>>]
        ELSE LET entries == parsed.value.items
                 strings == SelectSeq([i \in 1..Len(entries) |-> trimmedOrEmpty(entries[i])],
                                      isNonEmptyString)
             IN  IF Len(strings) > 0
                 THEN [isNull |-> FALSE, strings |-> strings]
                 ELSE [isNull |-> TRUE, strings |-> <<>>]

\* the class [-*\d.\)\s]
isBulletChar(c) ==
    c \in {"-", "*", ".", ")", " ", "0", "1", "2", "3", "4", "5", "6", "7", "8", "9"}

\* line.replace(/^[-*\d.\)\s]+/, '')
RECURSIVE stripBullets(_)
stripBullets(line) ==
    IF Len(line) > 0 /\ isBulletChar(SubSeq(line, 1, 1))
    THEN stripBullets(SubSeq(line, 2, Len(line)))
    ELSE line

\* parseLines of openrouter.ts
parseMessageLines(content) ==
    LET lines == content.lines
        trimmed == SelectSeq([i \in 1..Len(lines) |-> trim(lines[i])], isNonEmptyString)
    IN  SelectSeq([i \in 1..Len(trimmed) |-> trim(stripBullets(trimmed[i]))],
                  isNonEmptyString)

MessagesReturned(extracted, ms) ==
    [threw |-> FALSE, error |-> "", extracted |-> extracted, messages |-> ms]
MessagesThrown(extracted, e) ==
    [threw |-> TRUE, error |-> e, extracted |-> extracted, messages |-> <<>>]

\* mutant: the repeated messages are kept
normalizeMessagesKeepRepeats(ms) ==
    IF Len(ms) < 3
    THEN MessagesThrown(ms, "OpenRouter returned fewer than 3 messages")
    ELSE MessagesReturned(ms, SubSeq(ms, 1, 3))

normalizeMessages(ms) ==
    LET unique == uniqueInOrder(ms, {})
    IN  IF Len(unique) < 3
        THEN MessagesThrown(ms, "OpenRouter returned fewer than 3 messages")
        ELSE MessagesReturned(ms, SubSeq(unique, 1, 3))

\* everything generateCommitMessages does once fetch has resolved
generateCommitMessages(response) ==
    IF ~response.ok THEN MessagesThrown(<<>>, "OpenRouter e")
    ELSE IF ~response.validJson THEN MessagesThrown(<<>>, "OpenRouter returned invalid JSON")
    ELSE IF response.content = EmptyContent
         THEN MessagesThrown(<<>>, "OpenRouter returned empty content")
    ELSE LET jsonMessages == parseJsonArray(response.content)
         IN  IF ~jsonMessages.isNull
             THEN normalizeMessages(jsonMessages.strings)
             ELSE normalizeMessages(parseMessageLines(response.content))

\* the entries of the array a reply may carry
MessageEntries ==
    { JStr("feat: a"), JStr("fix: b"), JStr(" fix: b "), JStr("docs: c"), JStr("  "), JNum }

\* replies that are no JSON: lists, prose
ProseLineLists ==
    { <<"1. feat: a", "2. fix: b", "3. docs: c">>,
      <<"- feat: a", "- feat: a", "* fix: b", "", "  docs: c  ", "chore: d">>,
      <<"Here are the messages:", "feat: a">>,
      <<"1.", "2)", "feat: a", "fix: b", " - fix: b">>,
      <<"[", "\"feat: a\",", "\"fix: b\",">> }

MessageResponses ==
    LET docs == {JArr(items) : items \in SeqsUpTo(MessageEntries, MaxMessages)}
                \cup {JNull, JStr("feat: a")}
        contents == {PlainReply(doc) : doc \in docs}
                    \cup {FencedReply(doc) : doc \in docs}
                    \cup {ProseReply(lines) : lines \in ProseLineLists}
                    \cup {EmptyContent}
    IN
    {[ok |-> TRUE, validJson |-> TRUE, content |-> c] : c \in contents}
    \cup {[ok |-> FALSE, validJson |-> TRUE, content |-> EmptyContent],
          [ok |-> TRUE, validJson |-> FALSE, content |-> EmptyContent]}

gmIdle ==
    /\ gmPc = "idle"
    /\ gmResponse = NoResponse
    /\ gmExtracted = <<>>
    /\ gmMessages = <<>>
    /\ gmError = ""

\* generateCommitMessages awaits fetch
gmInit ==
    /\ gmPc = "awaiting"
    /\ gmResponse = NoResponse
    /\ gmExtracted = <<>>
    /\ gmMessages = <<>>
    /\ gmError = ""

\* fetch resolved: the rest of generateCommitMessages
gmResolve ==
    /\ gmPc = "awaiting"
    /\ \E response \in MessageResponses :
          LET out == generateCommitMessages(response)
          IN  /\ gmResponse' = response
              /\ gmPc' = IF out.threw THEN "thrown" ELSE "returned"
              /\ gmExtracted' = out.extracted
              /\ gmMessages' = out.messages
              /\ gmError' = out.error
    /\ UNCHANGED <<gcVars, repoVars, cmdVars, patchVars, cfgVars, fileVars, singleVars>>

(***************************************************************************)
(* git, as the commands use it                                             *)
(***************************************************************************)
BaseHistory == <<[message |-> "base", staged |-> <<>>]>>

\* git rev-parse HEAD: a revision is named by its position in the history
revParseHead(h) == Len(h)

\* what identifies a hunk in a patch: the file's `diff --git` line and the @@ line
hunkKey(h) == [file |-> h.fileHeader[1], header |-> h.header]

\* the hunks git reads in a patch, in order
RECURSIVE patchHunkKeys(_, _)
patchHunkKeys(patch, file) ==
    IF patch = <<>> THEN <<>>
    ELSE IF startsWith(Head(patch), "diff --git ")
         THEN patchHunkKeys(Tail(patch), Head(patch))
    ELSE IF startsWith(Head(patch), "@@")
         THEN <<[file |-> file, header |-> Head(patch)]>> \o patchHunkKeys(Tail(patch), file)
    ELSE patchHunkKeys(Tail(patch), file)

\* git apply --cached: the hunks of the patch are staged
gitApplyCached(idx, patch) == idx \o patchHunkKeys(patch, "")

\* git commit: the staged hunks become a commit and the index is clean again
gitCommit(h, idx, message) == Append(h, [message |-> message, staged |-> idx])

\* git reset --mixed <commit>: HEAD moves, the index is cleared, the tree stays
gitResetMixed(h, commit) == SubSeq(h, 1, commit)

\* !patch.trim()
isBlankText(text) == \A i \in 1..Len(text) : trim(text[i]) = ""

(***************************************************************************)
(* Inputs of runSplitHunksCommit                                           *)
(***************************************************************************)
\* git diff -U8 HEAD of a tree with two changes in a.ts and one in b.ts
DiffTwoFiles ==
    << "diff --git a/a.ts b/a.ts", "index 1a2b..3c4d 100644", "--- a/a.ts", "+++ b/a.ts",
       "@@ -1,2 +1,3 @@", " keep", "+added x",
       "@@ -9,3 +10,2 @@", " keep", "-removed y",
       "diff --git a/b.ts b/b.ts", "index 5e6f..7a8b 100644", "--- a/b.ts", "+++ b/b.ts",
       "@@ -4,2 +4,3 @@", " keep", "+added z", "" >>

\* changes in c.ts and in c.ts of the directory "lib b"
DiffSpacedDirectory ==
    << "diff --git a/lib b/c.ts b/lib b/c.ts", "index 9c0d..1e2f 100644",
       "--- a/lib b/c.ts", "+++ b/lib b/c.ts",
       "@@ -1,2 +1,3 @@", " keep", "+added p",
       "diff --git a/c.ts b/c.ts", "index 3a4b..5c6d 100644", "--- a/c.ts", "+++ b/c.ts",
       "@@ -7,2 +7,3 @@", " keep", "+added q", "" >>

\* the tree holds only an untracked file: git diff HEAD prints nothing
DiffEmpty == <<"">>

\* what runCommit found: the diff of the tree, the hunks the user had staged,
\* and getStatus
Scenarios ==
    { [diff |-> DiffTwoFiles, staged |-> <<>>,
       status |-> [staged |-> <<>>, unstaged |-> <<"a.ts", "b.ts">>]],
      [diff |-> DiffTwoFiles,
       staged |-> <<[file |-> "diff --git a/b.ts b/b.ts", header |-> "@@ -4,2 +4,3 @@"]>>,
       status |-> [staged |-> <<"b.ts">>, unstaged |-> <<"a.ts">>]],
      [diff |-> DiffSpacedDirectory, staged |-> <<>>,
       status |-> [staged |-> <<>>, unstaged |-> <<"c.ts", "lib b/c.ts">>]],
      [diff |-> DiffEmpty, staged |-> <<>>,
       status |-> [staged |-> <<>>, unstaged |-> <<"new.ts">>]],
      [diff |-> DiffTwoFiles, staged |-> patchHunkKeys(DiffTwoFiles, ""),
       status |-> [staged |-> <<"a.ts", "b.ts">>, unstaged |-> <<>>]] }

HunkReplyItems ==
    { JHunkObj(JArr(<<JStr("a.ts:1")>>), JStr("fix x")),
      JHunkObj(JArr(<<JStr("a.ts:2"), JStr("b.ts:1")>>), JStr("feat y")),
      JHunkObj(JArr(<<JStr("a.ts:2"), JStr("a.ts:1")>>), JStr(" fix x ")),
      JHunkObj(JArr(<<JStr("b.ts:1")>>), JStr("docs z")),
      JHunkObj(JArr(<<JStr("z.ts:9"), JStr("c.ts:1")>>), JStr("chore w")),
      JHunkObj(JArr(<<JStr("a.ts:1")>>), JStr(" ")) }

HunkReplyDocs == {JArr(items) : items \in SeqsUpTo(HunkReplyItems, MaxGroups)}

HunkResponses ==
    {[ok |-> TRUE, validJson |-> TRUE, content |-> <<TFence, TWord, TNl, TDoc(doc), TNl, TFence>>] :
        doc \in HunkReplyDocs}
    \cup {[ok |-> FALSE, validJson |-> TRUE, content |-> <<>>]}

(***************************************************************************)
(* runSplitHunksCommit                                                     *)
(***************************************************************************)
\* [...new Set([...status.staged, ...status.unstaged])]
allFiles(st) == uniqueInOrder(st.staged \o st.unstaged, {})

\* hunksMap.get(id): the last hunk set under id, or undefined
hunksMapHas(hs, id) == \E i \in 1..Len(hs) : hs[i].id = id
hunksMapGet(hs, id) ==
    hs[CHOOSE i \in 1..Len(hs) : hs[i].id = id /\ \A j \in (i + 1)..Len(hs) : hs[j].id # id]

\* group.hunkIds.map((id) => hunksMap.get(id)).filter((h) => h !== undefined)
groupHunksOf(group, hs) ==
    LET known(id) == hunksMapHas(hs, id)
        ids == SelectSeq(group.hunkIds, known)
    IN  [i \in 1..Len(ids) |-> hunksMapGet(hs, ids[i])]

\* mutant: a group without a known hunk is not skipped
loopFromNoSkip(gs, hs, pos, out) ==
    [pos |-> pos, console |-> out, atEnd |-> pos > Len(gs)]

\* the for loop from position pos up to its next await (applyPatch) or its end:
\* groups without a known hunk are skipped with a warning
RECURSIVE loopFrom(_, _, _, _)
loopFrom(gs, hs, pos, out) ==
    IF pos > Len(gs) THEN [pos |-> pos, console |-> out, atEnd |-> TRUE]
    ELSE IF Len(groupHunksOf(gs[pos], hs)) = 0
         THEN loopFrom(gs, hs, pos + 1,
                       Append(out, <<"warn", "Warning: No valid hunks for commit, skipping.",
                                     gs[pos].message>>))
    ELSE [pos |-> pos, console |-> out, atEnd |-> FALSE]

\* mutant: the rollback is skipped when a single commit was created
shouldRollbackAfterSecond(count) == count > 1

\* mutant: the rollback is tried whatever the count
shouldRollbackAlways(count) == count >= 0

\* `if (createdCount > 0)` of the catch block
shouldRollback(count) == count > 0

\* mutant: the reset goes to the current HEAD
rollbackTargetHead(saved, head) == head

\* the commit resetToCommit is called with
rollbackTarget(saved, head) == saved

\* mutant: the recovery hint is not printed
rollbackFailedOutputNoHint(rollbackMsg, saved) ==
    << <<"error", "Rollback failed: ", rollbackMsg>> >>

\* what the inner catch block prints
rollbackFailedOutput(rollbackMsg, saved) ==
    << <<"error", "Rollback failed: ", rollbackMsg>>,
       <<"error", "Manual recovery: git reset --mixed ", ToString(saved)>> >>

cmdInit ==
    /\ history = BaseHistory
    /\ \E sc \in Scenarios : scenario = sc /\ index = sc.staged
    /\ dryRun \in BOOLEAN
    /\ yes \in BOOLEAN
    /\ split \in BOOLEAN
    /\ splitHunks \in BOOLEAN
    /\ confirmed = FALSE
    /\ gitCalls = <<>>
    /\ splitGroups = <<>>
    /\ splitPos = 0
    /\ splitCreated = 0
    /\ status = scenario.status
    /\ messages = <<>>
    /\ finalMessage = ""
    /\ pc = "start"
    /\ hunks = <<>>
    /\ groups = <<>>
    /\ groupPos = 0
    /\ originalHead = 0
    /\ createdCount = 0
    /\ error = ""
    /\ thrown = ""
    /\ console = <<>>
    /\ resetCalls = <<>>

\* the command rejects with e
Reject(e) ==
    /\ pc' = "failed"
    /\ thrown' = e

\* the command's entry up to `await unstageAll` or `await getFullDiff`
SplitStart ==
    /\ pc = "start"
    /\ splitHunks
    /\ IF Len(allFiles(scenario.status)) = 0
       THEN Reject("No changes to commit.")
       ELSE /\ pc' = IF Len(scenario.status.staged) > 0 THEN "unstage" ELSE "diff"
            /\ UNCHANGED thrown
    /\ UNCHANGED <<confirmed, gitCalls, repoVars, optVars, hunks, groups, groupPos, originalHead,
                   createdCount, error, console, resetCalls, gcVars, patchVars, cfgVars, gmVars, fileVars, singleVars>>

\* mutant: what the user had staged stays in the index
UnstageAllKeepsIndex ==
    /\ pc = "unstage"
    /\ \/ /\ gitCalls' = Append(gitCalls, [op |-> "unstageAll", group |-> 0, ok |-> TRUE])
          /\ pc' = "diff"
          /\ UNCHANGED thrown
       \/ /\ Reject("git reset HEAD failed")
          /\ gitCalls' = Append(gitCalls, [op |-> "unstageAll", group |-> 0, ok |-> FALSE])
    /\ UNCHANGED <<confirmed, repoVars, optVars, hunks, groups, groupPos, originalHead,
                   createdCount, error, console, resetCalls, gcVars, patchVars, cfgVars, gmVars, fileVars, singleVars>>

\* unstageAll (git reset HEAD) settles
UnstageAll ==
    /\ pc = "unstage"
    /\ \/ /\ index' = <<>>
          /\ gitCalls' = Append(gitCalls, [op |-> "unstageAll", group |-> 0, ok |-> TRUE])
          /\ pc' = "diff"
          /\ UNCHANGED thrown
       \/ /\ Reject("git reset HEAD failed")
          /\ gitCalls' = Append(gitCalls, [op |-> "unstageAll", group |-> 0, ok |-> FALSE])
          /\ UNCHANGED index
    /\ UNCHANGED <<confirmed, history, optVars, hunks, groups, groupPos, originalHead,
                   createdCount, error, console, resetCalls, gcVars, patchVars, cfgVars, gmVars, fileVars, singleVars>>

\* getFullDiff settles; the diff is parsed and the grouping request is sent
GetFullDiff ==
    /\ pc = "diff"
    /\ \/ LET parsed == parseDiffHunks(scenario.diff)
          IN  IF Len(parsed) = 0
              THEN /\ Reject("No hunks found in diff.")
                   /\ UNCHANGED <<hunks, console>>
              ELSE /\ hunks' = parsed
                   /\ console' = console \o
                         << <<"log", "Analyzing hunks across files",
                              ToString(Len(parsed)),
                              ToString(Len(allFiles(scenario.status)))>>,
                            <<"log", "(experimental hunk-level split mode)">> >>
                   /\ pc' = "oracle"
                   /\ UNCHANGED thrown
       \/ /\ Reject("git diff failed")
          /\ UNCHANGED <<hunks, console>>
    /\ UNCHANGED <<confirmed, gitCalls, repoVars, optVars, groups, groupPos, originalHead,
                   createdCount, error, resetCalls, gcVars, patchVars, cfgVars, gmVars, fileVars, singleVars>>

\* `if (dryRun)`, reached once the proposal is confirmed
AfterConfirm(out, gs) ==
    IF dryRun
    THEN /\ console' = out \o
                << <<"log", "[dry-run] Would create the following commits:">> >>
                \o [g \in 1..Len(gs) |->
                       <<"log", gs[g].message, ToString(Len(gs[g].hunkIds))>>]
         /\ pc' = "done"
    ELSE /\ console' = out
         /\ pc' = "head"

\* generateCommitGroupsFromHunks settles
GroupsResolve ==
    /\ pc = "oracle"
    /\ \E response \in HunkResponses :
          LET out == generateCommitGroupsFromHunks([i \in 1..Len(hunks) |-> hunks[i].id],
                                                   response)
              shown == Append(console, <<"log", "Proposed commits", ToString(Len(out.groups))>>)
          IN  IF out.threw
              THEN /\ Reject(out.error)
                   /\ UNCHANGED <<groups, console>>
              ELSE /\ groups' = out.groups
                   /\ UNCHANGED thrown
                   /\ IF ~yes
                      THEN console' = shown /\ pc' = "confirm"
                      ELSE AfterConfirm(shown, out.groups)
    /\ UNCHANGED <<confirmed, gitCalls, repoVars, optVars, hunks, groupPos, originalHead,
                   createdCount, error, resetCalls, gcVars, patchVars, cfgVars, gmVars, fileVars, singleVars>>

\* the confirm prompt settles
Confirm ==
    /\ pc = "confirm"
    /\ \/ /\ AfterConfirm(console, groups)
          /\ confirmed' = TRUE
          /\ UNCHANGED thrown
       \/ /\ console' = Append(console, <<"log", "Split commit cancelled.">>)
          /\ pc' = "done"
          /\ UNCHANGED <<thrown, confirmed>>
       \/ /\ Reject("Cancelled")
          /\ UNCHANGED <<console, confirmed>>
    /\ UNCHANGED <<gitCalls, repoVars, optVars, hunks, groups, groupPos, originalHead,
                   createdCount, error, resetCalls, gcVars, patchVars, cfgVars, gmVars, fileVars, singleVars>>

\* the for loop runs from position pos to its next applyPatch, or to the end
ContinueLoop(pos, count, out) ==
    LET at == loopFrom(groups, hunks, pos, out)
    IN  /\ groupPos' = at.pos
        /\ IF at.atEnd
           THEN /\ console' = Append(at.console,
                                     <<"log", "Successfully created commits", ToString(count)>>)
                /\ pc' = "done"
           ELSE /\ console' = at.console
                /\ pc' = "apply"

\* mutant: the error is logged and the loop body goes on
CatchAndGoOn(e) ==
    /\ console' = Append(console, <<"error", "Error during hunk split: ", e>>)
    /\ error' = e
    /\ pc' = "commit"
    /\ UNCHANGED thrown

\* the catch block up to `await resetToCommit`, or to `throw error`
Catch(e) ==
    LET out == Append(console, <<"error", "Error during hunk split: ", e>>)
    IN  IF shouldRollback(createdCount)
        THEN /\ console' = Append(out, <<"error", "Rolling back commits", ToString(createdCount)>>)
             /\ error' = e
             /\ pc' = "rollback"
             /\ UNCHANGED thrown
        ELSE /\ console' = out
             /\ error' = e
             /\ Reject(e)

\* getCurrentHead settles; the loop starts
GetCurrentHead ==
    /\ pc = "head"
    /\ \/ /\ originalHead' = revParseHead(history)
          /\ createdCount' = 0
          /\ ContinueLoop(1, 0, console)
          /\ UNCHANGED thrown
       \/ /\ Reject("git rev-parse HEAD failed")
          /\ UNCHANGED <<originalHead, createdCount, groupPos, console>>
    /\ UNCHANGED <<confirmed, gitCalls, repoVars, optVars, hunks, groups, error, resetCalls, gcVars, patchVars, cfgVars, gmVars, fileVars, singleVars>>

\* applyPatch of the group at groupPos settles
ApplyPatch ==
    /\ pc = "apply"
    /\ LET patch == buildPatchFromHunks(groupHunksOf(groups[groupPos], hunks))
       IN  \/ /\ index' = IF isBlankText(patch) THEN index ELSE gitApplyCached(index, patch)
              /\ gitCalls' = Append(gitCalls,
                                     [op |-> "applyPatch", group |-> groupPos, ok |-> TRUE])
              /\ pc' = "commit"
              /\ UNCHANGED <<error, thrown, console>>
           \/ /\ ~isBlankText(patch)
              /\ Catch("git apply failed")
              /\ gitCalls' = Append(gitCalls,
                                     [op |-> "applyPatch", group |-> groupPos, ok |-> FALSE])
              /\ UNCHANGED index
    /\ UNCHANGED <<confirmed, history, optVars, hunks, groups, groupPos, originalHead,
                   createdCount, resetCalls, gcVars, patchVars, cfgVars, gmVars, fileVars, singleVars>>

\* commitWithMessage of the group at groupPos settles
CommitWithMessage ==
    /\ pc = "commit"
    /\ \/ /\ index # <<>>
          /\ history' = gitCommit(history, index, groups[groupPos].message)
          /\ index' = <<>>
          /\ gitCalls' = Append(gitCalls,
                                 [op |-> "commitWithMessage", group |-> groupPos, ok |-> TRUE])
          /\ createdCount' = createdCount + 1
          /\ ContinueLoop(groupPos + 1, createdCount + 1,
                          Append(console, <<"log", "Commit", ToString(createdCount + 1),
                                            ToString(Len(groups)), groups[groupPos].message>>))
          /\ UNCHANGED <<error, thrown>>
       \/ /\ Catch("git commit failed")
          /\ gitCalls' = Append(gitCalls,
                                 [op |-> "commitWithMessage", group |-> groupPos, ok |-> FALSE])
          /\ UNCHANGED <<repoVars, createdCount, groupPos>>
    /\ UNCHANGED <<confirmed, optVars, hunks, groups, originalHead, resetCalls, gcVars, patchVars, cfgVars, gmVars, fileVars, singleVars>>

\* resetToCommit settles: the command rejects with the error it caught
Rollback ==
    /\ pc = "rollback"
    /\ LET target == rollbackTarget(originalHead, revParseHead(history))
       IN  \/ /\ history' = gitResetMixed(history, target)
              /\ index' = <<>>
              /\ console' = Append(console, <<"log",
                     "Rollback successful. Repository restored to original state.">>)
              /\ resetCalls' = Append(resetCalls, [commit |-> target, ok |-> TRUE])
              /\ gitCalls' = Append(gitCalls, [op |-> "resetToCommit", group |-> 0, ok |-> TRUE])
           \/ /\ console' = console \o rollbackFailedOutput("git reset failed", originalHead)
              /\ resetCalls' = Append(resetCalls, [commit |-> target, ok |-> FALSE])
              /\ gitCalls' = Append(gitCalls, [op |-> "resetToCommit", group |-> 0, ok |-> FALSE])
              /\ UNCHANGED repoVars
    /\ Reject(error)
    /\ UNCHANGED <<confirmed, optVars, hunks, groups, groupPos, originalHead,
                   createdCount, error, gcVars, patchVars, cfgVars, gmVars, fileVars, singleVars>>

\* the commands are not running
cmdIdle ==
    /\ history = BaseHistory
    /\ index = <<>>
    /\ scenario = [diff |-> DiffEmpty, staged |-> <<>>,
                   status |-> [staged |-> <<>>, unstaged |-> <<>>]]
    /\ dryRun = FALSE
    /\ yes = FALSE
    /\ split = FALSE
    /\ splitHunks = FALSE
    /\ confirmed = FALSE
    /\ gitCalls = <<>>
    /\ splitGroups = <<>>
    /\ splitPos = 0
    /\ splitCreated = 0
    /\ status = scenario.status
    /\ messages = <<>>
    /\ finalMessage = ""
    /\ pc = "idle"
    /\ hunks = <<>>
    /\ groups = <<>>
    /\ groupPos = 0
    /\ originalHead = 0
    /\ createdCount = 0
    /\ error = ""
    /\ thrown = ""
    /\ console = <<>>
    /\ resetCalls = <<>>

(***************************************************************************)
(* git add, as runSplitCommit and runCommit use it                         *)
(***************************************************************************)
diffLineOf(file) == "diff --git a/" \o file \o " b/" \o file

\* every change of the working tree against HEAD when the command starts:
\* the hunks of the tracked files, and the untracked files as a whole
treeKeys(sc) ==
    LET tracked == patchHunkKeys(sc.diff, "")
        isUntracked(f) == \A i \in 1..Len(tracked) : tracked[i].file # diffLineOf(f)
        untracked == SelectSeq(allFiles(sc.status), isUntracked)
    IN  tracked \o [i \in 1..Len(untracked) |->
                       [file |-> diffLineOf(untracked[i]), header |-> "new file"]]

\* the changes the commits created so far hold
committedKeys(h) ==
    UNION {Range(h[c].staged) : c \in (Len(BaseHistory) + 1)..Len(h)}

\* git add -- files: the changes of these files that are neither committed
\* nor staged yet are staged
gitAdd(idx, sc, h, files) ==
    LET wanted(k) == /\ \E f \in Range(files) : k.file = diffLineOf(f)
                     /\ k \notin committedKeys(h)
                     /\ k \notin Range(idx)
    IN  idx \o SelectSeq(treeKeys(sc), wanted)

\* git add fails on a path that names no file of the tree
pathsKnown(sc, files) == Range(files) \subseteq Range(allFiles(sc.status))

(***************************************************************************)
(* runSplitCommit                                                          *)
(***************************************************************************)
SplitResponses ==
    LET replyItems ==
            { JObj(JArr(<<JStr("a.ts")>>), JStr("fix x")),
              JObj(JArr(<<JStr("b.ts")>>), JStr("feat y")),
              JObj(JArr(<<JNum>>), JStr("docs z")),
              JObj(JArr(<<JStr("new.ts"), JStr("zz.ts")>>), JStr(" chore w ")) }
    IN
    {[ok |-> TRUE, validJson |-> TRUE,
      content |-> <<TFence, TWord, TNl, TDoc(JArr(items)), TNl, TFence>>] :
        items \in SeqsUpTo(replyItems, MaxItems)}
    \cup {[ok |-> FALSE, validJson |-> TRUE, content |-> <<>>]}

\* runCommit hands over to runSplitCommit, which runs up to its first await
SplitFilesStart ==
    /\ pc = "start"
    /\ ~splitHunks /\ split
    /\ IF Len(allFiles(scenario.status)) = 0
       THEN Reject("No changes to commit.")
       ELSE /\ pc' = IF Len(scenario.status.staged) > 0 THEN "unstageSplit" ELSE "diffSplit"
            /\ UNCHANGED thrown
    /\ UNCHANGED <<confirmed, gitCalls, repoVars, optVars, hunks, groups, groupPos,
                   originalHead, createdCount, error, console, resetCalls,
                   gcVars, patchVars, cfgVars, gmVars, fileVars, singleVars>>

\* unstageAll (git reset HEAD) settles
UnstageAllSplit ==
    /\ pc = "unstageSplit"
    /\ \/ /\ index' = <<>>
          /\ gitCalls' = Append(gitCalls, [op |-> "unstageAll", group |-> 0, ok |-> TRUE])
          /\ pc' = "diffSplit"
          /\ UNCHANGED thrown
       \/ /\ Reject("git reset HEAD failed")
          /\ gitCalls' = Append(gitCalls, [op |-> "unstageAll", group |-> 0, ok |-> FALSE])
          /\ UNCHANGED index
    /\ UNCHANGED <<confirmed, history, optVars, hunks, groups, groupPos,
                   originalHead, createdCount, error, console, resetCalls,
                   gcVars, patchVars, cfgVars, gmVars, fileVars, singleVars>>

\* getFullDiff settles; the grouping request is sent
GetFullDiffSplit ==
    /\ pc = "diffSplit"
    /\ \/ /\ console' = Append(console, <<"log", "Analyzing changed files",
                                          ToString(Len(allFiles(scenario.status)))>>)
          /\ pc' = "groupsSplit"
          /\ UNCHANGED thrown
       \/ /\ Reject("git diff failed")
          /\ UNCHANGED console
    /\ UNCHANGED <<confirmed, gitCalls, repoVars, optVars, hunks, groups, groupPos,
                   originalHead, createdCount, error, resetCalls,
                   gcVars, patchVars, cfgVars, gmVars, fileVars, singleVars>>

\* the for loop of runSplitCommit reaches position pos: stageFiles is awaited,
\* or the loop is over
SplitLoopAt(pos, count, out, gs) ==
    IF pos > Len(gs)
    THEN /\ console' = Append(out, <<"log", "Successfully created commits", ToString(count)>>)
         /\ splitPos' = pos
         /\ pc' = "done"
    ELSE /\ console' = out
         /\ splitPos' = pos
         /\ pc' = "stageFiles"

\* AfterConfirmSplit as it would be without the test of dryRun
AfterConfirmSplitIgnoringDryRun(out, gs) == SplitLoopAt(1, 0, out, gs)

\* `if (dryRun)` of runSplitCommit, reached once the proposal is confirmed
AfterConfirmSplit(out, gs) ==
    IF dryRun
    THEN /\ console' = out \o
                << <<"log", "[dry-run] Would create the following commits:">> >>
                \o [g \in 1..Len(gs) |->
                       <<"log", gs[g].message, ToString(Len(gs[g].files))>>]
         /\ pc' = "done"
         /\ UNCHANGED splitPos
    ELSE SplitLoopAt(1, 0, out, gs)

\* generateCommitGroups settles
SplitGroupsResolve ==
    /\ pc = "groupsSplit"
    /\ \E response \in SplitResponses :
          LET out == generateCommitGroups(allFiles(scenario.status), response)
              shown == Append(console, <<"log", "Proposed commits", ToString(Len(out.groups))>>)
          IN  IF out.threw
              THEN /\ Reject(out.error)
                   /\ UNCHANGED <<splitGroups, splitPos, console>>
              ELSE /\ splitGroups' = out.groups
                   /\ UNCHANGED thrown
                   /\ IF ~yes
                      THEN console' = shown /\ pc' = "confirmSplit" /\ UNCHANGED splitPos
                      ELSE AfterConfirmSplit(shown, out.groups)
    /\ UNCHANGED <<confirmed, gitCalls, repoVars, optVars, hunks, groups, groupPos,
                   originalHead, createdCount, error, resetCalls, splitCreated,
                   gcVars, patchVars, cfgVars, gmVars, singleVars>>

\* the confirm prompt of runSplitCommit settles
ConfirmSplit ==
    /\ pc = "confirmSplit"
    /\ \/ /\ AfterConfirmSplit(console, splitGroups)
          /\ confirmed' = TRUE
          /\ UNCHANGED thrown
       \/ /\ console' = Append(console, <<"log", "Split commit cancelled.">>)
          /\ pc' = "done"
          /\ UNCHANGED <<thrown, confirmed, splitPos>>
       \/ /\ Reject("Cancelled")
          /\ UNCHANGED <<console, confirmed, splitPos>>
    /\ UNCHANGED <<gitCalls, repoVars, optVars, hunks, groups, groupPos,
                   originalHead, createdCount, error, resetCalls, splitGroups, splitCreated,
                   gcVars, patchVars, cfgVars, gmVars, singleVars>>

\* the catch block inside the loop of runSplitCommit: log and rethrow
CatchSplit(e, group) ==
    /\ console' = console \o << <<"error", "Failed to create commit: ", e>>,
                                <<"error", "Files: ", group.files>> >>
    /\ Reject(e)

\* stageFiles of the group at splitPos settles
StageFiles ==
    /\ pc = "stageFiles"
    /\ LET group == splitGroups[splitPos]
       IN  \/ /\ Len(group.files) = 0
              /\ pc' = "commitSplit"
              /\ UNCHANGED <<index, gitCalls, console, thrown>>
           \/ /\ Len(group.files) > 0
              /\ pathsKnown(scenario, group.files)
              /\ index' = gitAdd(index, scenario, history, group.files)
              /\ gitCalls' = Append(gitCalls,
                                     [op |-> "stageFiles", group |-> splitPos, ok |-> TRUE])
              /\ pc' = "commitSplit"
              /\ UNCHANGED <<console, thrown>>
           \/ /\ Len(group.files) > 0
              /\ CatchSplit("git add failed", group)
              /\ gitCalls' = Append(gitCalls,
                                     [op |-> "stageFiles", group |-> splitPos, ok |-> FALSE])
              /\ UNCHANGED index
    /\ UNCHANGED <<confirmed, history, optVars, hunks, groups, groupPos,
                   originalHead, createdCount, error, resetCalls, fileVars,
                   gcVars, patchVars, cfgVars, gmVars, singleVars>>

\* mutant: a failed commit resets HEAD to where the command started
CommitSplitRollsBack ==
    /\ pc = "commitSplit"
    /\ LET group == splitGroups[splitPos]
       IN  \/ /\ index # <<>>
              /\ history' = gitCommit(history, index, group.message)
              /\ index' = <<>>
              /\ gitCalls' = Append(gitCalls,
                                     [op |-> "commitWithMessage", group |-> splitPos, ok |-> TRUE])
              /\ splitCreated' = splitCreated + 1
              /\ SplitLoopAt(splitPos + 1, splitCreated + 1,
                             Append(console, <<"log", "Commit", ToString(splitCreated + 1),
                                               ToString(Len(splitGroups)), group.message>>),
                             splitGroups)
              /\ UNCHANGED thrown
           \/ /\ CatchSplit("git commit failed", group)
              /\ gitCalls' = Append(gitCalls,
                                     [op |-> "commitWithMessage", group |-> splitPos, ok |-> FALSE])
              /\ history' = BaseHistory
              /\ UNCHANGED <<index, splitCreated, splitPos>>
    /\ UNCHANGED <<confirmed, optVars, hunks, groups, groupPos,
                   originalHead, createdCount, error, resetCalls, splitGroups,
                   gcVars, patchVars, cfgVars, gmVars, singleVars>>

\* commitWithMessage of the group at splitPos settles
CommitSplit ==
    /\ pc = "commitSplit"
    /\ LET group == splitGroups[splitPos]
       IN  \/ /\ index # <<>>
              /\ history' = gitCommit(history, index, group.message)
              /\ index' = <<>>
              /\ gitCalls' = Append(gitCalls,
                                     [op |-> "commitWithMessage", group |-> splitPos, ok |-> TRUE])
              /\ splitCreated' = splitCreated + 1
              /\ SplitLoopAt(splitPos + 1, splitCreated + 1,
                             Append(console, <<"log", "Commit", ToString(splitCreated + 1),
                                               ToString(Len(splitGroups)), group.message>>),
                             splitGroups)
              /\ UNCHANGED thrown
           \/ /\ CatchSplit("git commit failed", group)
              /\ gitCalls' = Append(gitCalls,
                                     [op |-> "commitWithMessage", group |-> splitPos, ok |-> FALSE])
              /\ UNCHANGED <<repoVars, splitCreated, splitPos>>
    /\ UNCHANGED <<confirmed, optVars, hunks, groups, groupPos,
                   originalHead, createdCount, error, resetCalls, splitGroups,
                   gcVars, patchVars, cfgVars, gmVars, singleVars>>

(***************************************************************************)
(* runCommit without --split and --split-hunks: one commit                 *)
(***************************************************************************)
SingleResponses ==
    { [ok |-> TRUE, validJson |-> TRUE,
       content |-> FencedReply(JArr(<<JStr("feat: a"), JStr(" fix: b "), JStr("feat: a"),
                                      JStr("docs: c")>>))],
      [ok |-> TRUE, validJson |-> TRUE,
       content |-> PlainReply(JArr(<<JStr("__abort"), JStr("__custom"), JStr("feat: a")>>))],
      [ok |-> TRUE, validJson |-> TRUE,
       content |-> ProseReply(<<"- docs: c", "* fix: b", "1. chore: d">>)],
      [ok |-> TRUE, validJson |-> TRUE, content |-> PlainReply(JArr(<<JNum, JStr("  ")>>))],
      [ok |-> TRUE, validJson |-> TRUE, content |-> EmptyContent],
      [ok |-> FALSE, validJson |-> TRUE, content |-> EmptyContent] }

\* what the user types at 'Enter commit message'; validate refuses a blank text
CustomTexts == { "chore: mine", "  chore: mine " }

\* `if (status.staged.length === 0)` and the call of getStagedDiff
AfterStatus(st) ==
    IF Len(st.staged) = 0
    THEN Reject("No staged changes to commit.")
    ELSE pc' = "stagedDiff" /\ UNCHANGED thrown

\* runCommit runs up to its first await after getStatus
SingleStart ==
    /\ pc = "start"
    /\ ~splitHunks /\ ~split
    /\ IF Len(status.staged) = 0 /\ Len(status.unstaged) = 0
       THEN Reject("No changes to commit.")
       ELSE IF Len(status.unstaged) > 0
            THEN pc' = (IF yes THEN "stageAll" ELSE "stagePrompt") /\ UNCHANGED thrown
            ELSE AfterStatus(status)
    /\ UNCHANGED <<confirmed, gitCalls, repoVars, optVars, hunks, groups, groupPos,
                   originalHead, createdCount, error, console, resetCalls,
                   gcVars, patchVars, cfgVars, gmVars, fileVars, singleVars>>

\* the prompt 'Unstaged changes detected. Stage all changes?' settles
StagePrompt ==
    /\ pc = "stagePrompt"
    /\ \/ pc' = "stageAll" /\ UNCHANGED thrown
       \/ Reject("Aborted: commit requires all changes to be staged.")
       \/ Reject("Cancelled")
    /\ UNCHANGED <<confirmed, gitCalls, repoVars, optVars, hunks, groups, groupPos,
                   originalHead, createdCount, error, console, resetCalls,
                   gcVars, patchVars, cfgVars, gmVars, fileVars, singleVars>>

\* stageAll (git add -A) settles
StageAll ==
    /\ pc = "stageAll"
    /\ \/ /\ index' = gitAdd(index, scenario, history, allFiles(scenario.status))
          /\ gitCalls' = Append(gitCalls, [op |-> "stageAll", group |-> 0, ok |-> TRUE])
          /\ pc' = "getStatus"
          /\ UNCHANGED thrown
       \/ /\ Reject("git add -A failed")
          /\ gitCalls' = Append(gitCalls, [op |-> "stageAll", group |-> 0, ok |-> FALSE])
          /\ UNCHANGED index
    /\ UNCHANGED <<confirmed, history, optVars, hunks, groups, groupPos,
                   originalHead, createdCount, error, console, resetCalls,
                   gcVars, patchVars, cfgVars, gmVars, fileVars, singleVars>>

\* the second getStatus settles: every changed file is staged now
GetStatus ==
    /\ pc = "getStatus"
    /\ \/ LET st == [staged |-> allFiles(scenario.status), unstaged |-> <<>>]
          IN  status' = st /\ AfterStatus(st)
       \/ Reject("git status failed") /\ UNCHANGED status
    /\ UNCHANGED <<confirmed, gitCalls, repoVars, optVars, hunks, groups, groupPos,
                   originalHead, createdCount, error, console, resetCalls,
                   gcVars, patchVars, cfgVars, gmVars, fileVars, messages, finalMessage>>

\* getStagedDiff settles; the request for messages is sent
GetStagedDiff ==
    /\ pc = "stagedDiff"
    /\ \/ pc' = "messages" /\ UNCHANGED thrown
       \/ Reject("git diff --staged failed")
    /\ UNCHANGED <<confirmed, gitCalls, repoVars, optVars, hunks, groups, groupPos,
                   originalHead, createdCount, error, console, resetCalls,
                   gcVars, patchVars, cfgVars, gmVars, fileVars, singleVars>>

\* `if (dryRun)` of runCommit and the call of commitWithMessage
AfterConfirmSingle(message) ==
    IF dryRun
    THEN /\ console' = Append(console, <<"log", "[dry-run] " \o message>>)
         /\ pc' = "done"
    ELSE /\ pc' = "commitSingle"
         /\ UNCHANGED console

\* `if (!finalMessage)` and `if (!yes)` before the last prompt
AfterChoice(message) ==
    IF message = ""
    THEN Reject("Commit message is empty.") /\ UNCHANGED console
    ELSE /\ UNCHANGED thrown
         /\ IF ~yes
            THEN pc' = "confirmSingle" /\ UNCHANGED console
            ELSE AfterConfirmSingle(message)

\* generateCommitMessages settles
MessagesResolve ==
    /\ pc = "messages"
    /\ \E response \in SingleResponses :
          LET out == generateCommitMessages(response)
              first == IF Len(out.messages) > 0 THEN out.messages[1] ELSE ""
          IN  IF out.threw
              THEN Reject(out.error) /\ UNCHANGED <<messages, finalMessage, console>>
              ELSE /\ messages' = out.messages
                   /\ finalMessage' = first
                   /\ IF ~yes
                      THEN pc' = "choose" /\ UNCHANGED <<thrown, console>>
                      ELSE AfterChoice(first)
    /\ UNCHANGED <<confirmed, gitCalls, repoVars, optVars, hunks, groups, groupPos,
                   originalHead, createdCount, error, resetCalls,
                   gcVars, patchVars, cfgVars, gmVars, fileVars, status>>

\* the prompt 'Choose a commit message' settles
Choose ==
    /\ pc = "choose"
    /\ \/ \E selection \in Range(messages) \cup {"__custom", "__abort"} :
             IF selection = "__abort"
             THEN /\ console' = Append(console, <<"log", "Commit cancelled.">>)
                  /\ pc' = "done"
                  /\ UNCHANGED <<thrown, finalMessage>>
             ELSE /\ finalMessage' = selection
                  /\ IF selection = "__custom"
                     THEN pc' = "custom" /\ UNCHANGED <<thrown, console>>
                     ELSE AfterChoice(selection)
       \/ Reject("Cancelled") /\ UNCHANGED <<console, finalMessage>>
    /\ UNCHANGED <<confirmed, gitCalls, repoVars, optVars, hunks, groups, groupPos,
                   originalHead, createdCount, error, resetCalls,
                   gcVars, patchVars, cfgVars, gmVars, fileVars, status, messages>>

\* the prompt 'Enter commit message' settles
Custom ==
    /\ pc = "custom"
    /\ \/ \E customMessage \in CustomTexts :
             /\ finalMessage' = trim(customMessage)
             /\ AfterChoice(trim(customMessage))
       \/ Reject("Cancelled") /\ UNCHANGED <<console, finalMessage>>
    /\ UNCHANGED <<confirmed, gitCalls, repoVars, optVars, hunks, groups, groupPos,
                   originalHead, createdCount, error, resetCalls,
                   gcVars, patchVars, cfgVars, gmVars, fileVars, status, messages>>

\* ConfirmSingle as it would be if a declined prompt went on to the commit
ConfirmSingleProceedsOnNo ==
    /\ pc = "confirmSingle"
    /\ \/ /\ AfterConfirmSingle(finalMessage)
          /\ confirmed' = TRUE
          /\ UNCHANGED thrown
       \/ /\ AfterConfirmSingle(finalMessage)
          /\ UNCHANGED <<thrown, confirmed>>
       \/ /\ Reject("Cancelled")
          /\ UNCHANGED <<console, confirmed>>
    /\ UNCHANGED <<gitCalls, repoVars, optVars, hunks, groups, groupPos,
                   originalHead, createdCount, error, resetCalls,
                   gcVars, patchVars, cfgVars, gmVars, fileVars, singleVars>>

\* the prompt 'Commit with message: ... Proceed?' settles
ConfirmSingle ==
    /\ pc = "confirmSingle"
    /\ \/ /\ AfterConfirmSingle(finalMessage)
          /\ confirmed' = TRUE
          /\ UNCHANGED thrown
       \/ /\ console' = Append(console, <<"log", "Commit cancelled.">>)
          /\ pc' = "done"
          /\ UNCHANGED <<thrown, confirmed>>
       \/ /\ Reject("Cancelled")
          /\ UNCHANGED <<console, confirmed>>
    /\ UNCHANGED <<gitCalls, repoVars, optVars, hunks, groups, groupPos,
                   originalHead, createdCount, error, resetCalls,
                   gcVars, patchVars, cfgVars, gmVars, fileVars, singleVars>>

\* commitWithMessage(repoRoot, finalMessage) settles
CommitSingle ==
    /\ pc = "commitSingle"
    /\ \/ /\ index # <<>>
          /\ history' = gitCommit(history, index, finalMessage)
          /\ index' = <<>>
          /\ gitCalls' = Append(gitCalls, [op |-> "commitWithMessage", group |-> 0, ok |-> TRUE])
          /\ console' = Append(console, <<"log", "Commit created: " \o finalMessage>>)
          /\ pc' = "done"
          /\ UNCHANGED thrown
       \/ /\ Reject("git commit failed")
          /\ gitCalls' = Append(gitCalls, [op |-> "commitWithMessage", group |-> 0, ok |-> FALSE])
          /\ UNCHANGED <<repoVars, console>>
    /\ UNCHANGED <<confirmed, optVars, hunks, groups, groupPos,
                   originalHead, createdCount, error, resetCalls,
                   gcVars, patchVars, cfgVars, gmVars, fileVars, singleVars>>

(***************************************************************************)
(* parseDiffHunks and buildPatchFromHunks as a state machine               *)
(***************************************************************************)
\* a renamed file with one change
DiffRename ==
    << "diff --git a/old.ts b/new.ts", "similarity index 90%",
       "rename from old.ts", "rename to new.ts", "index 1a2b..3c4d 100644",
       "--- a/old.ts", "+++ b/new.ts",
       "@@ -1,2 +1,3 @@", " keep", "+added r", "" >>

\* a new file, then a file whose mode and content changed
DiffNewFileAndMode ==
    << "diff --git a/n.ts b/n.ts", "new file mode 100644", "index 0000000..1a2b",
       "--- /dev/null", "+++ b/n.ts",
       "@@ -0,0 +1,2 @@", "+line one", "+line two",
       "diff --git a/m.sh b/m.sh", "old mode 100644", "new mode 100755",
       "index 5e6f..7a8b", "--- a/m.sh", "+++ b/m.sh",
       "@@ -3,2 +3,2 @@", "-old", "+new",
       "@@ -20,1 +20,2 @@", " keep", "+tail", "" >>

\* a binary file (no hunk), then one change in b.ts
DiffBinaryThenText ==
    << "diff --git a/logo.png b/logo.png", "index 1a2b..3c4d 100644",
       "Binary files a/logo.png and b/logo.png differ",
       "diff --git a/b.ts b/b.ts", "index 5e6f..7a8b 100644", "--- a/b.ts", "+++ b/b.ts",
       "@@ -4,2 +4,3 @@", " keep", "+added z", "" >>

\* the only line of x.ts and the only line of y.ts were removed
DiffTwoDeletions ==
    << "diff --git a/x.ts b/x.ts", "index 1a2b..e69d 100644", "--- a/x.ts", "+++ b/x.ts",
       "@@ -1 +0,0 @@", "-only x",
       "diff --git a/y.ts b/y.ts", "index 3c4d..e69d 100644", "--- a/y.ts", "+++ b/y.ts",
       "@@ -1 +0,0 @@", "-only y", "" >>

\* a binary file only: file declarations, no hunk header
DiffBinaryOnly ==
    << "diff --git a/logo.png b/logo.png", "index 1a2b..3c4d 100644",
       "Binary files a/logo.png and b/logo.png differ", "" >>

\* git quotes a path that holds a tab or a non-ASCII byte
DiffQuotedPath ==
    << "diff --git \"a/caf\\303\\251.ts\" \"b/caf\\303\\251.ts\"",
       "index 9a8b..7c6d 100644", "--- \"a/caf\\303\\251.ts\"", "+++ \"b/caf\\303\\251.ts\"",
       "@@ -1,2 +1,2 @@", "-old q", "+new q", " keep",
       "diff --git a/b.ts b/b.ts", "index 5e6f..7a8b 100644", "--- a/b.ts", "+++ b/b.ts",
       "@@ -4,2 +4,3 @@", " keep", "+added z", "" >>

\* a removed SQL comment ("-- old note") and an added line that starts with
\* an increment ("++i;"): hunk lines that begin with --- and +++
DiffDashedLines ==
    << "diff --git a/q.sql b/q.sql", "index 2b3c..4d5e 100644", "--- a/q.sql", "+++ b/q.sql",
       "@@ -1,4 +1,4 @@", " select 1;", "--- old note", "+++i;", "-x", "+y", "" >>

Diffs ==
    { DiffTwoFiles, DiffSpacedDirectory, DiffEmpty, DiffRename, DiffNewFileAndMode,
      DiffBinaryThenText, DiffTwoDeletions, DiffBinaryOnly, DiffQuotedPath,
      DiffDashedLines }

patchIdle ==
    /\ pdPc = "idle"
    /\ pdDiff = DiffEmpty
    /\ pdHunks = <<>>
    /\ pbUnits = <<>>
    /\ pbPatch = <<>>

patchInit ==
    /\ pdPc = "parse"
    /\ pdDiff \in Diffs
    /\ pdHunks = <<>>
    /\ pbUnits = <<>>
    /\ pbPatch = <<>>

\* parseDiffHunks(diff)
ParseDiff ==
    /\ pdPc = "parse"
    /\ pdHunks' = parseDiffHunks(pdDiff)
    /\ pdPc' = "build"
    /\ UNCHANGED <<pdDiff, pbUnits, pbPatch, cfgVars, gcVars, repoVars, cmdVars, gmVars, fileVars, singleVars>>

\* buildPatchFromHunks(units), for units picked among the parsed hunks in any
\* order, with repeats
BuildPatch ==
    /\ pdPc = "build"
    /\ \E pick \in SeqsUpTo(1..Len(pdHunks), MaxUnits) :
          LET units == [i \in 1..Len(pick) |-> pdHunks[pick[i]]]
          IN  /\ pbUnits' = units
              /\ pbPatch' = buildPatchFromHunks(units)
    /\ pdPc' = "built"
    /\ UNCHANGED <<pdDiff, pdHunks, cfgVars, gcVars, repoVars, cmdVars, gmVars, fileVars, singleVars>>

(***************************************************************************)
(* resolveProjectConfig (config.ts)                                        *)
(* An optional field is a sequence: <<>> when absent, <<v>> when present.  *)
(* Temperatures are counted in tenths.                                     *)
(***************************************************************************)
MIN_OUTPUT_TOKENS == 32
MAX_OUTPUT_TOKENS == 512
DEFAULT_MAX_TOKENS == 120
DEFAULT_TEMPERATURE == 2

\* clampMaxTokens as it would be without the upper limit
clampMaxTokensNoCeiling(value) ==
    IF value < MIN_OUTPUT_TOKENS THEN MIN_OUTPUT_TOKENS ELSE value

clampMaxTokens(value) ==
    IF value < MIN_OUTPUT_TOKENS THEN MIN_OUTPUT_TOKENS
    ELSE IF value > MAX_OUTPUT_TOKENS THEN MAX_OUTPUT_TOKENS
    ELSE value

applyDefaults(config) ==
    [openrouterApiKey |-> config.openrouterApiKey,
     model |-> config.model,
     format |-> config.format,
     instructions |-> config.instructions,
     temperature |-> IF config.temperature # <<>> THEN config.temperature[1]
                     ELSE DEFAULT_TEMPERATURE,
     maxTokens |-> IF config.maxTokens # <<>> THEN clampMaxTokens(config.maxTokens[1])
                   ELSE DEFAULT_MAX_TOKENS]

ConfigFields ==
    {"openrouterApiKey", "model", "format", "instructions", "temperature", "maxTokens"}

\* a project entry that sets no field: `projects[repoRoot] ?? {}`
NoProjectConfig == [f \in ConfigFields |-> <<>>]

\* resolveProjectConfig: the names it reports missing and, when there is
\* none, the configuration it returns
resolveProjectConfig(gc, root) ==
    LET projectConfig == IF root \in DOMAIN gc.projects THEN gc.projects[root]
                         ELSE NoProjectConfig
        \* { ...defaults, ...projectConfig }
        merged == [f \in ConfigFields |->
                      IF projectConfig[f] # <<>> THEN projectConfig[f] ELSE gc.defaults[f]]
        required == <<"openrouterApiKey", "model", "format", "instructions">>
        isMissing(f) == merged[f] = <<>>
        absent == SelectSeq(required, isMissing)
    IN  IF Len(absent) > 0
        THEN [threw |-> TRUE, missing |-> absent, config |-> <<>>]
        ELSE [threw |-> FALSE, missing |-> <<>>,
              config |-> <<applyDefaults([f \in ConfigFields |->
                                            IF merged[f] = <<>> THEN <<>>
                                            ELSE IF f \in {"temperature", "maxTokens"}
                                                 THEN merged[f] ELSE merged[f][1]])>>]

\* the global defaults and the project entries of a validated global config;
\* maxTokens is as the schema admits it: absent, or a positive integer
GlobalConfigs ==
    LET text(f) == {<<>>, <<"global " \o f>>}
        MaxTokensInputs ==
            {<<>>} \cup {<<n>> : n \in {1, 31, 32, 33, 120, 511, 512, 513, 100000}}
        defaults == {[openrouterApiKey |-> k, model |-> m, format |-> fo,
                      instructions |-> i, temperature |-> t, maxTokens |-> mt] :
                        k \in text("key"), m \in text("model"), fo \in text("format"),
                        i \in text("instructions"), t \in {<<>>, <<7>>},
                        mt \in MaxTokensInputs}
        project == {[NoProjectConfig EXCEPT !.model = m, !.maxTokens = mt] :
                        m \in {<<>>, <<"project model">>}, mt \in MaxTokensInputs}
    IN  {[defaults |-> d, projects |-> ps] :
            d \in defaults,
            ps \in {<<>>} \cup {[r \in {"/work/repo"} |-> pr] : pr \in project}}

cfgIdle ==
    /\ cfgPc = "idle"
    /\ globalConfig = [defaults |-> NoProjectConfig, projects |-> <<>>]
    /\ repoRoot = ""
    /\ cfgResolved = <<>>
    /\ cfgMissing = <<>>

cfgInit ==
    /\ cfgPc = "ready"
    /\ globalConfig \in GlobalConfigs
    /\ repoRoot \in {"/work/repo", "/work/other"}
    /\ cfgResolved = <<>>
    /\ cfgMissing = <<>>

\* resolveProjectConfig(globalConfig, repoRoot) returns or throws
cfgResolve ==
    /\ cfgPc = "ready"
    /\ LET out == resolveProjectConfig(globalConfig, repoRoot)
       IN  /\ cfgPc' = IF out.threw THEN "thrown" ELSE "returned"
           /\ cfgResolved' = out.config
           /\ cfgMissing' = out.missing
    /\ UNCHANGED <<globalConfig, repoRoot, gcVars, repoVars, cmdVars, patchVars, gmVars,
                   fileVars, singleVars>>

vars == <<gcVars, repoVars, cmdVars, patchVars, gmVars, fileVars, singleVars, cfgVars>>

InitGroups == gcInit /\ cmdIdle /\ patchIdle /\ gmIdle /\ cfgIdle
NextGroups == gcCall \/ gcResolve
SpecGroups == InitGroups /\ [][NextGroups]_vars

Init == cmdInit /\ gcInit /\ patchIdle /\ gmIdle /\ cfgIdle
Next ==
    \/ SplitStart
    \/ UnstageAll
    \/ GetFullDiff
    \/ GroupsResolve
    \/ Confirm
    \/ GetCurrentHead
    \/ ApplyPatch
    \/ CommitWithMessage
    \/ Rollback
    \/ SplitFilesStart
    \/ UnstageAllSplit
    \/ GetFullDiffSplit
    \/ SplitGroupsResolve
    \/ ConfirmSplit
    \/ StageFiles
    \/ CommitSplit
    \/ SingleStart
    \/ StagePrompt
    \/ StageAll
    \/ GetStatus
    \/ GetStagedDiff
    \/ MessagesResolve
    \/ Choose
    \/ Custom
    \/ ConfirmSingle
    \/ CommitSingle
Spec == Init /\ [][Next]_vars

InitPatch == patchInit /\ gcInit /\ cmdIdle /\ gmIdle /\ cfgIdle
NextPatch == ParseDiff \/ BuildPatch
SpecPatch == InitPatch /\ [][NextPatch]_vars

InitMessages == gmInit /\ gcInit /\ cmdIdle /\ patchIdle /\ cfgIdle
NextMessages == gmResolve
SpecMessages == InitMessages /\ [][NextMessages]_vars

InitConfig == cfgInit /\ gcInit /\ cmdIdle /\ patchIdle /\ gmIdle
NextConfig == cfgResolve
SpecConfig == InitConfig /\ [][NextConfig]_vars

(***************************************************************************)
(* Properties of the hunk-split apply phase (Spec)                         *)
(***************************************************************************)
\* the command has ended and its for loop had started
ApplyPhaseEnded == pc \in {"done", "failed"} /\ groupPos >= 1

\* the groups that hold at least one known hunk
CommittableGroups == {g \in 1..Len(groups) : \E i \in 1..Len(groups[g].hunkIds) :
                                                  \E h \in 1..Len(hunks) :
                                                     hunks[h].id = groups[g].hunkIds[i]}

\* the commits created since the command started
NewCommits == SubSeq(history, Len(BaseHistory) + 1, Len(history))

\* C1: when a stage or a commit fails after one or more commits were created,
\* resetToCommit is called (once) with the HEAD saved before the first group, and
\* if that reset succeeds HEAD is that checkpoint again: no net commit exists.
C1_RollbackToCheckpoint ==
    (pc = "failed" /\ createdCount >= 1) =>
        /\ Len(resetCalls) = 1
        /\ resetCalls[1].commit = originalHead
        /\ originalHead = Len(BaseHistory)
        /\ resetCalls[1].ok => (Len(history) = originalHead /\ history = BaseHistory)

\* three groups, the second one failed to stage, the one commit was rolled back
C1_Witness ==
    /\ pc = "failed"
    /\ Len(groups) = 3
    /\ groupPos = 2
    /\ createdCount = 1
    /\ thrown = "git apply failed"
    /\ resetCalls = <<[commit |-> Len(BaseHistory), ok |-> TRUE]>>
    /\ history = BaseHistory

\* C2: the apply phase never ends with only some of the commits created and no
\* reset attempted: all committable groups were committed, or no commit was
\* created, or resetToCommit was called.
C2_NoPartialWithoutRollback ==
    ApplyPhaseEnded =>
        \/ /\ pc = "done"
           /\ createdCount = Cardinality(CommittableGroups)
           /\ Len(NewCommits) = createdCount
        \/ createdCount = 0 /\ history = BaseHistory
        \/ Len(resetCalls) >= 1

\* the phase failed with some, not all, commits created
C2_Witness ==
    /\ pc = "failed"
    /\ createdCount >= 1
    /\ createdCount < Cardinality(CommittableGroups)
    /\ Len(resetCalls) >= 1

\* C3: whenever the apply phase fails (and no reset failed), the repository is
\* in its state of before the phase: HEAD is the checkpoint and nothing is staged.
C3_FailureRestoresRepository ==
    (/\ pc = "failed"
     /\ groupPos >= 1
     /\ \A r \in 1..Len(resetCalls) : resetCalls[r].ok)
    => (history = BaseHistory /\ index = <<>>)

\* C4: when the rollback itself fails, the command rejects with the error that
\* caused the rollback, and the rollback's failure is printed, with the checkpoint.
C4_RollbackFailureReported ==
    (pc = "failed" /\ Len(resetCalls) >= 1 /\ ~resetCalls[1].ok) =>
        /\ thrown = error
        /\ thrown \in {"git apply failed", "git commit failed"}
        /\ \E i \in 1..Len(console) :
              console[i] = <<"error", "Rollback failed: ", "git reset failed">>
        /\ \E i \in 1..Len(console) :
              console[i] = <<"error", "Manual recovery: git reset --mixed ",
                             ToString(Len(BaseHistory))>>

\* a commit failed after a first commit, and the reset failed too
C4_Witness ==
    /\ pc = "failed"
    /\ thrown = "git commit failed"
    /\ createdCount = 1
    /\ resetCalls = <<[commit |-> Len(BaseHistory), ok |-> FALSE]>>

\* the places (commit, position) where the new commits hold the hunk h
C5_CommittedAt(h) ==
    {p \in (1..Len(NewCommits)) \X (1..Len(hunks)) :
        /\ p[2] <= Len(NewCommits[p[1]].staged)
        /\ NewCommits[p[1]].staged[p[2]] = hunkKey(h)}

\* C5: after a confirmed run without dryRun that ends well, every parsed hunk
\* is in the patch of exactly one of the commits created.
C5_EveryHunkCommittedOnce ==
    (pc = "done" /\ ~dryRun /\ groupPos >= 1) =>
        \A h \in 1..Len(hunks) : Cardinality(C5_CommittedAt(hunks[h])) = 1


(***************************************************************************)
(* Properties of the grouping client (SpecGroups)                          *)
(***************************************************************************)
\* C6: every file of the input appears in at least one of the returned groups,
\* whatever subset the reply assigned.
C6_CoverageAfterRepair ==
    gcPc = "returned" =>
        \A i \in 1..Len(gcFiles) :
            \E g \in 1..Len(gcGroups) :
                \E j \in 1..Len(gcGroups[g].files) : gcGroups[g].files[j] = gcFiles[i]

\* the reply left at least one input file unassigned, and the call returned
C6_Witness ==
    /\ gcPc = "returned"
    /\ \E i \in 1..Len(gcFiles) :
          \A g \in 1..Len(gcParsed) : gcFiles[i] \notin Range(gcParsed[g].files)

\* C7: in the returned groups no file name appears in two groups, nor twice in one.
C7_NoDuplicateAssignment ==
    gcPc = "returned" =>
        \A g, h \in 1..Len(gcGroups) :
            \A i \in 1..Len(gcGroups[g].files) :
                \A j \in 1..Len(gcGroups[h].files) :
                    (<<g, i>> # <<h, j>>) => gcGroups[g].files[i] # gcGroups[h].files[j]

\* the files of the input that no parsed group holds, in input order
C8_Missing ==
    LET held == UNION {Range(gcParsed[g].files) : g \in 1..Len(gcParsed)}
        absent(f) == f \notin held
    IN  SelectSeq(gcFiles, absent)

\* C8: the repair appends the missing files, in input order, to the end of the last
\* group's list and changes nothing else: number and order of the groups, every
\* message and every other list stay as parsed.
C8_RepairTouchesOnlyLastGroup ==
    gcPc = "returned" =>
        /\ Len(gcGroups) = Len(gcParsed)
        /\ \A g \in 1..Len(gcGroups) : gcGroups[g].message = gcParsed[g].message
        /\ \A g \in 1..(Len(gcGroups) - 1) : gcGroups[g].files = gcParsed[g].files
        /\ gcGroups[Len(gcGroups)].files = gcParsed[Len(gcParsed)].files \o C8_Missing
        /\ (C8_Missing = <<>> => gcGroups = gcParsed)

\* two files were missing from a reply of two groups
C8_Witness ==
    /\ gcPc = "returned"
    /\ Len(gcGroups) >= 2
    /\ Len(C8_Missing) >= 2

\* the reply is no parseable list, or validation discards every element of it
C9_ReplyUnusable ==
    LET parsed == JSONparse(stripCodeFences(gcResponse.content))
    IN  \/ parsed.threw
        \/ parsed.value.t # "arr"
        \/ \A i \in 1..Len(parsed.value.items) : ~isUsableItem(parsed.value.items[i])

\* C9: the client never returns an empty group list; an unusable reply makes the
\* call fail with an error.
C9_NeverEmptyGroupList ==
    /\ gcPc = "returned" => Len(gcGroups) >= 1
    /\ (/\ gcPc \in {"returned", "thrown"}
        /\ gcResponse.ok /\ gcResponse.validJson /\ Len(gcResponse.content) > 0
        /\ C9_ReplyUnusable)
       => (gcPc = "thrown" /\ gcError = FailedToParse)

\* a reply that is a list of elements, all of them discarded, made the call fail
C9_Witness ==
    /\ gcPc = "thrown"
    /\ gcError = FailedToParse
    /\ LET parsed == JSONparse(stripCodeFences(gcResponse.content))
       IN  ~parsed.threw /\ parsed.value.t = "arr" /\ Len(parsed.value.items) >= 1

\* C10: every group parseCommitGroups returns has a non-empty list of file names
\* and a non-empty, trimmed message.
C10_ParsedGroupsWellFormed ==
    gcPc = "returned" =>
        \A g \in 1..Len(gcParsed) :
            /\ Len(gcParsed[g].files) > 0
            /\ Len(gcParsed[g].message) > 0
            /\ trim(gcParsed[g].message) = gcParsed[g].message

(***************************************************************************)
(* Properties of the parser and the patch builder (SpecPatch)              *)
(***************************************************************************)
reverse(s) == [i \in 1..Len(s) |-> s[Len(s) + 1 - i]]

\* all the units were parsed from the same `diff --git` entry
SameFileEntry(units) ==
    \A i, j \in 1..Len(units) : units[i].fileHeader = units[j].fileHeader

\* hunks with the same path were parsed from the same `diff --git` entry
PathNamesFileEntry(units) ==
    \A i, j \in 1..Len(units) :
        units[i].file = units[j].file => units[i].fileHeader = units[j].fileHeader

\* C11 (as claimed): buildPatchFromHunks gives the same patch for a sequence
\* of hunks and for its reverse, also when the hunks span several files
\* (stated for hunks whose path names their file entry).
C11_OrderIndependent ==
    (pdPc = "built" /\ PathNamesFileEntry(pbUnits))
        => buildPatchFromHunks(reverse(pbUnits)) = pbPatch

\* C11 (amended): for hunks that all come from one file entry,
\* buildPatchFromHunks gives the same patch for the sequence and its reverse.
C11_OrderIndependentWithinFile ==
    (pdPc = "built" /\ SameFileEntry(pbUnits))
        => buildPatchFromHunks(reverse(pbUnits)) = pbPatch

\* two hunks of one file entry were handed over in descending order
C11_Witness ==
    /\ pdPc = "built"
    /\ Len(pbUnits) >= 2
    /\ SameFileEntry(pbUnits)
    /\ pbUnits[1].hunkIndex > pbUnits[2].hunkIndex
    /\ reverse(pbUnits) # pbUnits

\* the lines of D at which a file entry starts, and the last line of the entry
EntryStarts(D) == {i \in 1..Len(D) : startsWith(D[i], "diff --git ")}
EntryEnd(D, i) ==
    LET later == {j \in EntryStarts(D) : j > i}
    IN  IF later = {} THEN Len(D)
        ELSE (CHOOSE j \in later : \A k \in later : j <= k) - 1
EntryHasHunk(D, i) == \E j \in i..EntryEnd(D, i) : startsWith(D[j], "@@")

\* the lines of D that belong to a file entry with at least one hunk
RECURSIVE entriesWithHunks(_, _)
entriesWithHunks(D, j) ==
    IF j > Len(D) THEN <<>>
    ELSE LET kept == \E i \in EntryStarts(D) :
                         i <= j /\ j <= EntryEnd(D, i) /\ EntryHasHunk(D, i)
         IN  (IF kept THEN <<D[j]>> ELSE <<>>) \o entriesWithHunks(D, j + 1)

\* a text without the empty lines at its end
RECURSIVE withoutBlankEnd(_)
withoutBlankEnd(text) ==
    IF text # <<>> /\ text[Len(text)] = ""
    THEN withoutBlankEnd(SubSeq(text, 1, Len(text) - 1))
    ELSE text

\* C12: building the patch of all the hunks parsed from a diff reproduces,
\* in file order, every line of every file entry that has a hunk (header
\* lines, then hunk lines): nothing dropped, added or reordered. Stated up to
\* empty lines at the end of the text, for hunks whose path names their entry.
C12_RoundTrip ==
    (pdPc = "built" /\ pbUnits = pdHunks /\ PathNamesFileEntry(pdHunks))
        => withoutBlankEnd(pbPatch) = withoutBlankEnd(entriesWithHunks(pdDiff, 1))

\* the lines of D that are hunk headers of a file entry, in ascending order
HunkHeaderLines(D) ==
    {j \in 1..Len(D) : startsWith(D[j], "@@") /\ \E i \in EntryStarts(D) : i < j}
RECURSIVE ascending(_)
ascending(S) ==
    IF S = {} THEN <<>>
    ELSE LET least == CHOOSE x \in S : \A y \in S : x <= y
         IN  <<least>> \o ascending(S \ {least})

\* the 1-based position of the hunk header at line j among those of its entry
PositionInEntry(D, j) ==
    LET start == CHOOSE i \in EntryStarts(D) : i < j /\ j <= EntryEnd(D, i)
    IN  Cardinality({k \in start..j : startsWith(D[k], "@@")})

ParsedDiff == pdPc \in {"build", "built"}

\* C13: parseDiffHunks returns its units in diff order, each for a hunk
\* header of its own, and the id of a unit is its file, a colon and the
\* 1-based position of its header among the hunk headers of its file entry
\* (counted from 1 again in each entry).
C13_IdsNumberedPerFile ==
    ParsedDiff =>
        \E emitted \in SUBSET HunkHeaderLines(pdDiff) :
        LET at == ascending(emitted)
        IN  /\ Len(pdHunks) = Len(at)
            /\ \A n \in 1..Len(at) :
                  /\ pdHunks[n].header = pdDiff[at[n]]
                  /\ pdHunks[n].hunkIndex = PositionInEntry(pdDiff, at[n])
                  /\ pdHunks[n].id = pdHunks[n].file \o ":"
                                       \o ToString(PositionInEntry(pdDiff, at[n]))

\* a.ts with two hunks, then b.ts with one
C13_Witness ==
    /\ ParsedDiff
    /\ pdDiff = DiffTwoFiles
    /\ [n \in 1..Len(pdHunks) |-> pdHunks[n].id] = <<"a.ts:1", "a.ts:2", "b.ts:1">>

Built == pdPc = "built"

\* the hunkIndex of the unit of file `file` whose header is the line `header`
IndexOfUnit(units, file, header) ==
    LET u == CHOOSE n \in 1..Len(units) :
                 units[n].file = file /\ units[n].header = header
    IN  units[u].hunkIndex

\* the hunkIndex of the hunk whose header is line j of the patch, the block of
\* a file running from its `diff --git` line to the next one
HunkIndexAt(patch, units, j) ==
    LET start == CHOOSE i \in EntryStarts(patch) : i < j /\ j <= EntryEnd(patch, i)
    IN  IndexOfUnit(units, extractFileFromDiffHeader(patch[start]), patch[j])

SameBlock(patch, j, k) ==
    \E i \in EntryStarts(patch) : i < j /\ j <= k /\ k <= EntryEnd(patch, i)

\* C14: in every file block of the patch the hunks stand in ascending
\* hunkIndex order, whatever their order in the input.
C14_HunksAscendingInBlock ==
    Built =>
        \A j, k \in HunkHeaderLines(pbPatch) :
            (j < k /\ SameBlock(pbPatch, j, k))
                => HunkIndexAt(pbPatch, pbUnits, j) <= HunkIndexAt(pbPatch, pbUnits, k)

\* the input held two hunks of one file, the later one first
C14_Witness ==
    /\ Built
    /\ \E m, n \in 1..Len(pbUnits) :
          /\ m < n
          /\ pbUnits[m].file = pbUnits[n].file
          /\ pbUnits[m].hunkIndex > pbUnits[n].hunkIndex
    /\ \E j, k \in HunkHeaderLines(pbPatch) : j < k /\ SameBlock(pbPatch, j, k)

\* the paths of the file blocks of a patch, in order
BlockFiles(patch) ==
    LET starts == ascending(EntryStarts(patch))
    IN  [n \in 1..Len(starts) |-> extractFileFromDiffHeader(patch[starts[n]])]

FirstAppearance(units, file) ==
    CHOOSE i \in 1..Len(units) :
        units[i].file = file /\ \A j \in 1..(i - 1) : units[j].file # file

\* the block starting at line i opens with the header lines of a unit of its
\* file, a hunk follows at once, and no header line comes back in the block
HeaderOnceBeforeHunks(patch, units, i) ==
    \E n \in 1..Len(units) :
        LET header == units[n].fileHeader
            body == SubSeq(patch, i + Len(header), EntryEnd(patch, i))
        IN  /\ units[n].file = extractFileFromDiffHeader(patch[i])
            /\ SubSeq(patch, i, i + Len(header) - 1) = header
            /\ body # <<>> /\ startsWith(body[1], "@@")
            /\ \A k \in 1..Len(body) : body[k] \notin Range(header)

\* C15: for a non-empty input the patch has exactly one block per distinct
\* file path of the input, the blocks in order of first appearance of their
\* path in the input; a block holds its file's header lines once, before its
\* hunks; the text ends with a line break.
C15_OneBlockPerFileInInputOrder ==
    (Built /\ Len(pbUnits) > 0) =>
        LET files == BlockFiles(pbPatch)
        IN  /\ \A m, n \in 1..Len(files) : m # n => files[m] # files[n]
            /\ Range(files) = {pbUnits[i].file : i \in 1..Len(pbUnits)}
            /\ \A m, n \in 1..Len(files) :
                  m < n => FirstAppearance(pbUnits, files[m])
                               < FirstAppearance(pbUnits, files[n])
            /\ \A i \in EntryStarts(pbPatch) : HeaderOnceBeforeHunks(pbPatch, pbUnits, i)
            /\ pbPatch[Len(pbPatch)] = ""

\* b.ts was met before a.ts, and a.ts more than once
C15_Witness ==
    /\ Built
    /\ Len(pbUnits) = 3
    /\ pbUnits[1].file = "b.ts"
    /\ pbUnits[2].file = "a.ts"
    /\ pbUnits[3].file = "a.ts"
    /\ BlockFiles(pbPatch) = <<"b.ts", "a.ts">>

(***************************************************************************)
(* Properties of the commands (Spec)                                       *)
(***************************************************************************)
isStageOrCommit(call) == call.op \in {"applyPatch", "commitWithMessage"}

\* the applyPatch and commitWithMessage calls of the run, as they settled
StageAndCommitCalls == SelectSeq(gitCalls, isStageOrCommit)

\* C16: in hunk-split mode the stage and commit calls come one at a time, in
\* the order of the groups: a commit is issued only after the stage of its
\* own group succeeded, a stage only after the commit of an earlier group
\* succeeded, and nothing is staged or committed once a call has failed.
C16_StrictlySequential ==
    splitHunks =>
        LET calls == StageAndCommitCalls
            n == Len(calls)
        IN  /\ \A i \in 1..n : ~calls[i].ok => i = n
            /\ \A i \in 1..n :
                  calls[i].op = "commitWithMessage" =>
                      /\ i > 1
                      /\ calls[i - 1] = [op |-> "applyPatch", group |-> calls[i].group,
                                         ok |-> TRUE]
            /\ \A i \in 2..n :
                  calls[i].op = "applyPatch" =>
                      /\ calls[i - 1].op = "commitWithMessage"
                      /\ calls[i - 1].ok
                      /\ calls[i - 1].group < calls[i].group
            /\ n >= 1 => calls[1].op = "applyPatch"
            /\ pc = "apply" =>
                  /\ \A i \in 1..n : calls[i].ok /\ calls[i].group < groupPos
                  /\ n >= 1 => calls[n].op = "commitWithMessage"
            /\ pc = "commit" =>
                  /\ n >= 1
                  /\ calls[n] = [op |-> "applyPatch", group |-> groupPos, ok |-> TRUE]

\* two groups were staged and committed, a third one failed to stage
C16_Witness ==
    /\ splitHunks
    /\ Len(StageAndCommitCalls) = 5
    /\ StageAndCommitCalls[5] = [op |-> "applyPatch", group |-> 3, ok |-> FALSE]
    /\ pc = "failed"

\* the hunks the command stages for the group at position g
GroupKeys(g) == {hunkKey(h) : h \in Range(groupHunksOf(groups[g], hunks))}

\* C17: in hunk-split mode every commit is created from an index that holds
\* exactly the hunks of its group: the j-th commit holds the hunks of the j-th
\* group that names a known hunk, no hunk of another group and nothing the
\* user had staged before the command started.
C17_CommitHoldsItsGroupOnly ==
    splitHunks =>
        LET committable == ascending(CommittableGroups)
        IN  \A j \in 1..Len(NewCommits) :
               /\ j <= Len(committable)
               /\ Range(NewCommits[j].staged) = GroupKeys(committable[j])
               /\ \A k \in Range(NewCommits[j].staged) :
                     \E h \in 1..Len(hunks) :
                        /\ hunkKey(hunks[h]) = k
                        /\ hunks[h].id \in Range(groups[committable[j]].hunkIds)

\* the user had staged a hunk; two commits were created, the first without it
C17_Witness ==
    /\ splitHunks
    /\ scenario.staged # <<>>
    /\ Len(NewCommits) = 2
    /\ scenario.staged[1] \notin Range(NewCommits[1].staged)
    /\ scenario.staged[1] \in Range(NewCommits[2].staged)

(***************************************************************************)
(* Properties of the message client (SpecMessages)                         *)
(***************************************************************************)
\* the JSON document of a reply, if its text holds one
ReplyHasDoc(content) == \E i \in 1..Len(content.tokens) : content.tokens[i].k = "json"
ReplyDoc(content) ==
    content.tokens[CHOOSE i \in 1..Len(content.tokens) : content.tokens[i].k = "json"].v

\* the reply is a JSON array with a string that is not blank
IsMessageArray(content) ==
    /\ ReplyHasDoc(content)
    /\ ReplyDoc(content).t = "arr"
    /\ \E i \in 1..Len(ReplyDoc(content).items) :
          /\ ReplyDoc(content).items[i].t = "str"
          /\ trim(ReplyDoc(content).items[i].s) # ""

\* what the reply offers as messages, in the order of the model output: the
\* entries of the array, else the lines of the text ("" where there is none)
Offered(content) ==
    IF IsMessageArray(content)
    THEN LET items == ReplyDoc(content).items
         IN  [i \in 1..Len(items) |->
                 IF items[i].t = "str" THEN trim(items[i].s) ELSE ""]
    ELSE [i \in 1..Len(content.lines) |-> trim(stripBullets(trim(content.lines[i])))]

FirstOffered(content, m) ==
    CHOOSE i \in 1..Len(Offered(content)) :
        /\ Offered(content)[i] = m
        /\ \A j \in 1..(i - 1) : Offered(content)[j] # m

GotContent ==
    gmResponse.ok /\ gmResponse.validJson /\ gmResponse.content # EmptyContent

\* C20: when generateCommitMessages returns, it returns exactly 3 messages,
\* pairwise distinct and not empty, in the order of their first occurrence in
\* the model output, none before them left out; with fewer than 3 distinct
\* messages in the output it throws.
C20_ThreeDistinctMessages ==
    /\ gmPc = "returned" =>
          LET offered == Offered(gmResponse.content)
          IN  /\ GotContent
              /\ Len(gmMessages) = 3
              /\ \A k, l \in 1..3 : k # l => gmMessages[k] # gmMessages[l]
              /\ \A k \in 1..3 : gmMessages[k] # "" /\ gmMessages[k] \in Range(offered)
              /\ \A k, l \in 1..3 :
                    k < l => FirstOffered(gmResponse.content, gmMessages[k])
                                 < FirstOffered(gmResponse.content, gmMessages[l])
              /\ \A i \in 1..FirstOffered(gmResponse.content, gmMessages[3]) :
                    offered[i] = "" \/ offered[i] \in Range(gmMessages)
    /\ (gmPc = "thrown" /\ GotContent) =>
          /\ Cardinality(Range(Offered(gmResponse.content)) \ {""}) < 3
          /\ gmError = "OpenRouter returned fewer than 3 messages"

\* a fenced array of four strings, one of them a repeat once trimmed
C20_Witness ==
    /\ gmPc = "returned"
    /\ IsMessageArray(gmResponse.content)
    /\ Len(gmResponse.content.tokens) > 1
    /\ Offered(gmResponse.content) = <<"feat: a", "fix: b", "fix: b", "docs: c">>
    /\ gmMessages = <<"feat: a", "fix: b", "docs: c">>

(***************************************************************************)
(* Properties of the three commit modes together (Spec)                    *)
(***************************************************************************)
\* a call of applyPatch, stageFiles or commitWithMessage is awaited
StageOrCommitInFlight ==
    pc \in {"apply", "commit", "stageFiles", "commitSplit", "commitSingle"}

\* applyPatch, stageFiles or commitWithMessage was invoked
StageOrCommitInvoked ==
    \/ StageOrCommitInFlight
    \/ \E i \in 1..Len(gitCalls) :
          gitCalls[i].op \in {"applyPatch", "stageFiles", "commitWithMessage"}

\* the user said no at a prompt, chose Abort, or cancelled a prompt
Declined ==
    \/ /\ pc = "done"
       /\ Len(console) > 0
       /\ console[Len(console)] \in { <<"log", "Split commit cancelled.">>,
                                      <<"log", "Commit cancelled.">> }
    \/ /\ pc = "failed"
       /\ thrown \in {"Cancelled", "Aborted: commit requires all changes to be staged."}

\* C18: in each of the three modes applyPatch, stageFiles for a group and
\* commitWithMessage are invoked only once the user confirmed the proposal or
\* yes was set, and a run the user declined or aborted ends without any new
\* commit.
C18_NoCommitBeforeConfirmation ==
    /\ StageOrCommitInvoked => (yes \/ confirmed)
    /\ history # BaseHistory => (yes \/ confirmed)
    /\ Declined => /\ history = BaseHistory
                   /\ ~StageOrCommitInvoked

\* the user was asked, confirmed, and the commit was created after that
C18_Witness ==
    /\ ~yes
    /\ confirmed
    /\ Len(history) > Len(BaseHistory)
    /\ Len(gitCalls) > 0
    /\ gitCalls[Len(gitCalls)].op = "commitWithMessage"
    /\ gitCalls[Len(gitCalls)].ok

\* the user was asked and said no: the run is over
C18_WitnessDeclined ==
    /\ ~yes
    /\ ~confirmed
    /\ Declined
    /\ pc = "done"

\* commitWithMessage, applyPatch or resetToCommit was invoked
CommitOrPatchOrResetInvoked ==
    \/ pc \in {"apply", "commit", "rollback", "commitSplit", "commitSingle"}
    \/ \E i \in 1..Len(gitCalls) :
          gitCalls[i].op \in {"commitWithMessage", "applyPatch", "resetToCommit"}
    \/ resetCalls # <<>>

\* C19: with dryRun set no mode invokes commitWithMessage, applyPatch or
\* resetToCommit, whatever the model answers and whatever the user answers,
\* and no commit is created.
C19_DryRunCreatesNothing ==
    dryRun => /\ ~CommitOrPatchOrResetInvoked
              /\ history = BaseHistory
              /\ createdCount = 0
              /\ splitCreated = 0

\* a dry run in which the user confirmed the proposal and the run ended
C19_Witness ==
    /\ dryRun
    /\ confirmed
    /\ pc = "done"
    /\ Len(console) > 0
    /\ ~Declined

(***************************************************************************)
(* Properties of the configuration (SpecConfig)                            *)
(***************************************************************************)
\* maxTokens as configured for repoRoot: the project's value when it sets
\* one, else the global one
ConfiguredMaxTokens ==
    IF /\ repoRoot \in DOMAIN globalConfig.projects
       /\ globalConfig.projects[repoRoot].maxTokens # <<>>
    THEN globalConfig.projects[repoRoot].maxTokens
    ELSE globalConfig.defaults.maxTokens

\* C21: the maxTokens of every configuration resolveProjectConfig returns
\* lies between 32 and 512: a configured value below 32 resolves to 32, one
\* above 512 to 512, one inside the range to itself, and an absent value to
\* the default 120.
C21_MaxTokensClamped ==
    cfgPc = "returned" =>
        LET got == cfgResolved[1].maxTokens
            configured == ConfiguredMaxTokens
        IN  /\ got >= 32 /\ got <= 512
            /\ configured = <<>> => got = 120
            /\ configured # <<>> =>
                  /\ configured[1] < 32 => got = 32
                  /\ configured[1] > 512 => got = 512
                  /\ (configured[1] >= 32 /\ configured[1] <= 512) => got = configured[1]

\* the project sets a value above the maximum over a global value inside the
\* range, and the configuration was returned
C21_Witness ==
    /\ cfgPc = "returned"
    /\ repoRoot \in DOMAIN globalConfig.projects
    /\ globalConfig.projects[repoRoot].maxTokens = <<513>>
    /\ globalConfig.defaults.maxTokens = <<120>>
    /\ cfgResolved[1].maxTokens = 512

(***************************************************************************)
(* More properties of the parser and the patch builder (SpecPatch)         *)
(***************************************************************************)
\* the positions of the lines of pdDiff that begin a hunk
HunkHeaderPositions == {i \in 1..Len(pdDiff) : startsWith(pdDiff[i], "@@")}

\* C22: the empty text, and any text without a line that begins a hunk,
\* parses to the empty sequence; buildPatchFromHunks of the empty sequence is
\* the empty string.
C22_EmptyInputIsNoError ==
    /\ (ParsedDiff /\ pdDiff = <<"">>) => pdHunks = <<>>
    /\ (ParsedDiff /\ HunkHeaderPositions = {}) => pdHunks = <<>>
    /\ (Built /\ pbUnits = <<>>) => pbPatch = <<"">>

\* a text with file declarations and no hunk was parsed and the empty
\* sequence was handed to the builder
C22_Witness ==
    /\ Built
    /\ pdDiff = DiffBinaryOnly
    /\ pdHunks = <<>>
    /\ pbUnits = <<>>
    /\ pbPatch = <<"">>

\* C23: parseDiffHunks returns as many units as the diff has lines that
\* begin with @@ after a diff --git line, also when that diff --git line does
\* not have the form a/<path> b/<path> and the path extracted is empty.
C23_NoHunkDropped ==
    ParsedDiff => Len(pdHunks) = Cardinality(HunkHeaderLines(pdDiff))

\* the line after the last line of the hunk whose header is at line j: the
\* next hunk header or file declaration, or the end of the text
HunkEnd(D, j) ==
    LET later == {k \in (j + 1)..Len(D) :
                     startsWith(D[k], "@@") \/ startsWith(D[k], "diff --git ")}
    IN  IF later = {} THEN Len(D) + 1
        ELSE CHOOSE k \in later : \A m \in later : k <= m

\* C24: every unit parseDiffHunks returns has a content that is not empty
\* and starts with the unit's header, a line beginning with @@; its
\* fileHeader starts with the diff --git line of its file entry; and its
\* content is, verbatim and in order, the input from its header up to the
\* next hunk header or file declaration, lines beginning with "--- " or
\* "+++ " included.
C24_UnitHoldsItsLines ==
    ParsedDiff =>
        \E emitted \in SUBSET HunkHeaderLines(pdDiff) :
        LET at == ascending(emitted)
        IN  /\ Len(pdHunks) = Len(at)
            /\ \A n \in 1..Len(at) :
                  LET unit == pdHunks[n]
                      start == CHOOSE i \in EntryStarts(pdDiff) :
                                  i < at[n] /\ at[n] <= EntryEnd(pdDiff, i)
                  IN  /\ Len(unit.content) > 0
                      /\ unit.content[1] = unit.header
                      /\ startsWith(unit.header, "@@")
                      /\ unit.header = pdDiff[at[n]]
                      /\ Len(unit.fileHeader) > 0
                      /\ unit.fileHeader[1] = pdDiff[start]
                      /\ unit.content = SubSeq(pdDiff, at[n], HunkEnd(pdDiff, at[n]) - 1)

\* a hunk with a removed line "--- old note" and an added line "+++i;" was
\* parsed: both are lines of its content
C24_Witness ==
    /\ ParsedDiff
    /\ pdDiff = DiffDashedLines
    /\ Len(pdHunks) = 1
    /\ \E i, j \in 1..Len(pdHunks[1].content) :
          /\ i < j
          /\ pdHunks[1].content[i] = "--- old note"
          /\ pdHunks[1].content[j] = "+++i;"

\* the diff --git lines of D are pairwise distinct: each path is declared once
DeclaredOnce(D) ==
    \A i, j \in EntryStarts(D) : D[i] = D[j] => i = j

\* C25: for a diff in which each file path is declared by at most one
\* diff --git line, the ids of the units parseDiffHunks returns are pairwise
\* distinct.
C25_IdsPairwiseDistinct ==
    (ParsedDiff /\ DeclaredOnce(pdDiff)) =>
        \A m, n \in 1..Len(pdHunks) : pdHunks[m].id = pdHunks[n].id => m = n

\* the added and removed lines of a unit: the lines of its content that begin
\* with + or -
AddedOrRemoved(unit) ==
    LET changed(line) == startsWith(line, "+") \/ startsWith(line, "-")
    IN  SelectSeq(unit.content, changed)

\* C26: the summary of a unit is the first 5 added or removed lines of its
\* content, in order, each cut to its first 100 characters and joined by line
\* breaks; added lines whose text begins with ++ and removed lines whose text
\* begins with -- are among them.
C26_SummaryOfFirstChanges ==
    ParsedDiff =>
        \A n \in 1..Len(pdHunks) :
            LET changes == AddedOrRemoved(pdHunks[n])
                first == SubSeq(changes, 1, IF Len(changes) < 5 THEN Len(changes) ELSE 5)
                cut(line) == SubSeq(line, 1, IF Len(line) < 100 THEN Len(line) ELSE 100)
            IN  pdHunks[n].summary = join([i \in 1..Len(first) |-> cut(first[i])])

(***************************************************************************)
(* More properties of the commands (Spec)                                  *)
(***************************************************************************)
\* a commitWithMessage call settled with success
SomeCommitCreated ==
    \E i \in 1..Len(gitCalls) : gitCalls[i].op = "commitWithMessage" /\ gitCalls[i].ok

\* resetToCommit was invoked: it is awaited, or it settled
ResetInvocations == Len(resetCalls) + (IF pc = "rollback" THEN 1 ELSE 0)

\* C27: in a run of runSplitHunksCommit resetToCommit is invoked at most once,
\* only after a stage or a commit failed, and only when at least one commit
\* was created; a run that succeeds and a run that fails before its first
\* commit never invoke it.
C27_ResetAtMostOnceAfterFailure ==
    splitHunks =>
        /\ ResetInvocations <= 1
        /\ ResetInvocations = 1 =>
              /\ Len(StageAndCommitCalls) > 0
              /\ ~StageAndCommitCalls[Len(StageAndCommitCalls)].ok
              /\ SomeCommitCreated
              /\ createdCount > 0
        /\ pc = "done" => ResetInvocations = 0
        /\ (pc = "failed" /\ ~SomeCommitCreated) => ResetInvocations = 0

\* one commit was created, the next stage or commit failed, and the one reset
\* settled
C27_Witness ==
    /\ splitHunks
    /\ pc = "failed"
    /\ createdCount = 1
    /\ Len(resetCalls) = 1
    /\ ~StageAndCommitCalls[Len(StageAndCommitCalls)].ok

\* the loop ended with 'Successfully created <n> commits.'
HunkSplitSucceeded ==
    /\ splitHunks
    /\ pc = "done"
    /\ Len(console) > 0
    /\ console[Len(console)][2] = "Successfully created commits"

\* the warnings printed for the groups that were skipped
SkipWarnings ==
    LET isWarning(entry) == entry[1] = "warn"
    IN  SelectSeq(console, isWarning)

\* C28: in hunk-split mode only parsed hunks are handed to the patch builder
\* and staged; a group none of whose identifiers names a parsed hunk is
\* skipped: it is neither staged nor committed and does not fail the run;
\* and a run that succeeds reports as many commits as there are groups with
\* at least one known identifier.
C28_UnknownIdsSkipped ==
    splitHunks =>
        /\ \A i \in 1..Len(StageAndCommitCalls) :
              StageAndCommitCalls[i].group \in CommittableGroups
        /\ pc \in {"apply", "commit"} =>
              /\ groupPos \in CommittableGroups
              /\ Range(groupHunksOf(groups[groupPos], hunks)) \subseteq Range(hunks)
              /\ \A h \in Range(groupHunksOf(groups[groupPos], hunks)) :
                    h.id \in Range(groups[groupPos].hunkIds)
        /\ \A j \in 1..Len(NewCommits) :
              Range(NewCommits[j].staged) \subseteq {hunkKey(h) : h \in Range(hunks)}
        /\ HunkSplitSucceeded =>
              /\ createdCount = Cardinality(CommittableGroups)
              /\ Len(NewCommits) = Cardinality(CommittableGroups)
              /\ console[Len(console)][3] = ToString(Cardinality(CommittableGroups))
              /\ Len(SkipWarnings) = Len(groups) - Cardinality(CommittableGroups)

\* a run succeeded with fewer commits than groups: a group was skipped
C28_Witness ==
    /\ HunkSplitSucceeded
    /\ createdCount >= 1
    /\ createdCount < Len(groups)
    /\ Len(SkipWarnings) >= 1

\* runSplitCommit failed while staging or committing a group
FileSplitFailedInLoop ==
    /\ split /\ ~splitHunks
    /\ pc = "failed"
    /\ Len(gitCalls) > 0
    /\ gitCalls[Len(gitCalls)].op \in {"stageFiles", "commitWithMessage"}
    /\ ~gitCalls[Len(gitCalls)].ok

\* C29: in file-level split mode, when staging or committing group k fails
\* after k-1 commits were created, the command rejects with that error and
\* resets nothing: the k-1 commits stay in the history and HEAD is not the
\* HEAD the command started from.
C29_FileSplitKeepsEarlierCommits ==
    FileSplitFailedInLoop =>
        LET k == gitCalls[Len(gitCalls)].group
        IN  /\ thrown \in {"git add failed", "git commit failed"}
            /\ splitCreated = k - 1
            /\ Len(NewCommits) = k - 1
            /\ SubSeq(history, 1, Len(BaseHistory)) = BaseHistory
            /\ \A j \in 1..(k - 1) : NewCommits[j].message = splitGroups[j].message
            /\ k > 1 => revParseHead(history) # revParseHead(BaseHistory)
            /\ resetCalls = <<>>
            /\ \A i \in 1..Len(gitCalls) : gitCalls[i].op # "resetToCommit"

\* the second group failed after the first was committed
C29_Witness ==
    /\ FileSplitFailedInLoop
    /\ gitCalls[Len(gitCalls)].group = 2
    /\ gitCalls[Len(gitCalls)].op = "commitWithMessage"
    /\ Len(NewCommits) = 1

\* the run ended without a commit because it was a dry run or because the
\* user declined
EndedWithoutCommitByChoice ==
    /\ pc \in {"done", "failed"}
    /\ history = BaseHistory
    /\ \/ dryRun /\ pc = "done"
       \/ Declined

====
